---------------------------- MODULE Spec2Model ----------------------------
(***************************************************************************)
(* A model of the core engine of the graph database: the batched index    *)
(* populator (index_construct), the delta-matrix storage, the v14 snapshot *)
(* encoder, the v13 decoder of a graph split over virtual keys, the        *)
(* operators NodeByLabelScan, Skip and LoadCSV and the all-neighbors       *)
(* traversal.                                                              *)
(*                                                                         *)
(* Each subsystem has a specification of its own (SpecIndex, SpecMatrix,   *)
(* SpecSnapshot, SpecEncode, SpecDecode, SpecScan, SpecSkip, SpecCsv,      *)
(* SpecTraverse); the variables of the other subsystems stay at their      *)
(* initial value under it. SpecIndexFair is SpecIndex with the populator   *)
(* thread scheduled fairly.                                                *)
(***************************************************************************)
EXTENDS Integers, Sequences, FiniteSets, TLC

\* ------------------------------------------------------------------------
\* Bounds of the model
\* ------------------------------------------------------------------------

\* dimension of the relation matrix the edge populator walks
\* (edge endpoints are 0 .. MaxNodes-1)
MaxNodes == 2

\* the populator's batch_size is drawn from 1 .. MaxBatch
\* (the code fixes it to 1000; the loop structure is the same for any
\* value >= 1)
MaxBatch == 2

\* number of write queries on nodes committed in one behaviour; the node
\* ids handed out by the store are therefore 0 .. MaxNodeWrites-1
MaxNodeWrites == 4

\* number of write queries on edges committed in one behaviour; the edge
\* ids handed out by the store are therefore 0 .. MaxEdgeWrites-1
MaxEdgeWrites == 2

\* dimension up to which a delta-matrix is resized (cells are
\* 0 .. MaxDim-1 squared)
MaxDim == 2

\* number of set / clear / resize / flush calls in one behaviour
MaxOps == 4

\* rows of the label matrix a scan reads: 0 .. MaxRows
MaxRows == 2

\* largest NodeID (the model's UINT64_MAX)
MaxId == 3

\* records the child of a scan produces: 0 .. MaxChild
MaxChild == 2

\* consume and reset calls made on a scan in one behaviour
MaxCalls == 4

\* largest value of a skip expression
MaxSkip == 2

\* consume and reset calls made on a plan in one behaviour
MaxPlanCalls == 5

\* rows of a CSV file: 0 .. MaxCsvRows
MaxCsvRows == 2

\* records the child of a LoadCSV produces: 0 .. MaxCsvChild
MaxCsvChild == 2

\* consume and reset calls made on a LoadCSV in one behaviour
MaxCsvCalls == 6

\* entries of the adjacency matrix a traversal walks: 0 .. MaxTravEdges
MaxTravEdges == 3

\* largest maxLen of a traversal
MaxTravLen == 3

\* virtual keys a graph is encoded in: 1 .. MaxVKeys
MaxVKeys == 3

\* payload writer calls with budget 0 made in a row
MaxZeroBudgets == 1

\* slots of the node store of a graph that is saved
MaxSnapNodes == 2

\* slots of the edge store of a graph that is saved
MaxSnapEdges == 2

\* ------------------------------------------------------------------------
\* State
\* ------------------------------------------------------------------------

VARIABLES
    \* --- index population (index_construct) ---
    entity_type,    \* idx->entity_type: "NODE" | "EDGE"
    idx_state,      \* idx->state
    pc,             \* position of the populator thread
    rdlocks,        \* number of graph read locks the populator holds
    batch_size,     \* batch_size local
    indexed,        \* indexed local
    it,             \* RG_MatrixTupleIter: <<row, col>> of the next position
    index,          \* content of the index (set of indexed entities)
    popIndexed,     \* history: entities the populator passed to Index_Index*
    exitState,      \* history: idx->state as it was when the loop was left
    windowEntries,  \* history: matrix entries indexed since the lock was taken
    popSlots,       \* history: the matrix entries the populator processed, in order
    writesAtStart,  \* history: write queries committed before Index_Populate began
    lateEntries,    \* history: entries processed while idx->state was not POPULATING
    writes,         \* number of write queries committed so far
    nodes,          \* live node ids
    labelled,       \* label matrix (diagonal): ids carrying idx->label_id
    rowIdx,         \* _Index_PopulateNodeIndex: rowIdx
    id,             \* _Index_PopulateNodeIndex: id
    R,              \* relation matrix: slot <<src,dest>> -> array of edge ids
    src_id,         \* _Index_PopulateEdgeIndex locals
    dest_id,
    edge_id,
    prev_src_id,
    prev_dest_id,
    info,
    \* --- delta-matrix and its tuple iterator ---
    dm_n,           \* nrows = ncols of the three matrices
    dm_M,           \* main matrix M: cell -> value, 0 for no entry
    dm_DP,          \* pending additions P+: cell -> value, 0 for no entry
    dm_DM,          \* pending deletions P-: set of cells
    dm_ops,         \* number of operations applied so far
    dm_flushed,     \* history: the overlays the last operation flushed
    mit_attached,   \* the iterator is attached to the matrix
    mit_pos,        \* <<row, col>> the iterator looks at next
    mit_out,        \* history: tuples yielded in the current pass
    mit_exhausted,  \* next() returned EXHAUSTED in the current pass
    \* --- NodeByLabelScan ---
    sc_pc,          \* "built", "ready" (init done), "freed" or "undefined"
    childCount,     \* opBase->childCount
    label_id,       \* op->n->label_id
    schema_exists,  \* the graph has a schema for op->n->label
    id_range,       \* op->id_range
    op_type,        \* op->op.type
    consume,        \* the consume function of the operator
    iter,           \* op->iter
    child_record,   \* op->child_record: 0 for NULL, else the k-th child record
    child_len,      \* records the child produces after a reset
    child_next,     \* records the child has produced
    lm_nrows,       \* rows of the label matrix
    lm_nodes,       \* nodes that carry the label
    sc_calls,       \* consume and reset calls made
    sc_last,        \* history: what the last call returned
    sc_out,         \* history: records returned since the last reset
    cfg_range,      \* history: the ID range the operator was configured with
    sc_op,          \* history: the last call made on the operator
    sc_deleted,     \* history: child records deleted since the last reset
    sc_dropped,     \* history: the child record the last reset or free deleted, 0 for none
    sc_handed,      \* history: the child record the last returned record is, 0 for none
    sc_clone,       \* the operator NodeByLabelScanClone returned, if it was called
    \* --- snapshot of a graph ---
    g_nodes,          \* node store: slot of node id i at i + 1
    g_deleted_nodes,  \* deleted-ID list of the node store
    g_edges,          \* edge store: slot of edge id i at i + 1
    g_deleted_edges,  \* deleted-ID list of the edge store
    g_relation_count, \* Graph_RelationTypeCount
    enc_state,        \* payload type the encoder is at
    enc_offset,       \* encoding context: processed-entities offset
    enc_dbiter,       \* encoding context: datablock iterator
    enc_r,            \* encoding context: current relation id
    enc_miter,        \* encoding context: matrix tuple iterator
    enc_multi,        \* encoding context: multiple-edges array, index, src, dest
    enc_budgets,      \* history: the payload writer calls made, with budgets
    enc_last,         \* history: the last payload writer call and the ids it wrote
    enc_zero,         \* history: calls with budget 0 made in a row
    enc_edges,        \* history: the edges RdbSaveEdges_v14 passed to RdbSaveEdge
    enc_nodes,        \* history: the node ids RdbSaveNodes_v14 wrote, in order
    enc_iters,        \* history: datablock iterators created and freed so far
    io,               \* the tokens written
    dec_done,         \* the stream has been decoded
    dec,              \* the graph the decoder built
    \* --- Skip ---
    sk_pc,          \* "none", "built"
    skip,           \* op->skip
    skipped,        \* op->skipped
    skip_exp,       \* op->skip_exp: the stored expression
    sk_error,       \* ErrorCtx: the non-negative-integer error is set
    exp_arg,        \* history: the expression passed to NewSkipOp, as given and as the call left it
    params,         \* the value of the parameter $n in force
    cl_pc,          \* the clone: "none", "built"
    cl_skip,        \* the clone's skip
    cl_skipped,     \* the clone's skipped
    cl_skip_exp,    \* the clone's stored expression
    cl_error,       \* building the clone set the error
    sk_calls,       \* history: consume and reset calls made on the plan
    sk_passes,      \* history: for each reset, the records returned before it
    sk_out,         \* history: records returned since the last reset
    sk_last,        \* history: what the last call returned
    sk_deleted,     \* history: records deleted since the last reset
    sk_initial,     \* history: the stream of the initialised plan

    \* ---- LoadCSV ----
    csv_pc,           \* "none", "new", "ready", "unwound", "crashed"
    csv_has_child,    \* OpBase_ChildCount(op) > 0
    csv_exp,          \* what op->exp evaluates to on an empty record
    csv_child,        \* for each record of the child, what op->exp evaluates to on it
    csv_files,        \* the files that can be opened, each with its number of rows
    csv_consume,      \* the consume function registered for the operator
    csv_reset,        \* the reset function registered for the operator
    csv_path,         \* op->path
    csv_reader,       \* op->reader
    csv_child_record, \* op->child_record: 0 (NULL) or the position of the record
    csv_child_pos,    \* records the child has produced since its last reset
    csv_exceptions,   \* the runtime exceptions raised so far
    csv_opened,       \* history: the path values CSVReader_New was called for
    csv_calls,        \* history: consume and reset calls made
    csv_pass_calls,   \* history: consume calls made since the last reset
    csv_resets,       \* history: reset calls made
    csv_out,          \* history: records returned since the last reset
    csv_last,         \* history: what the last consume call returned

    \* ---- all-neighbors traversal ----
    an_pc,          \* "none", "ready"
    an_M,           \* ctx->M: the adjacency matrix, as its set of (src, dest) entries
    an_src,         \* ctx->src
    an_minLen,      \* ctx->minLen
    an_maxLen,      \* ctx->maxLen
    an_first_pull,  \* ctx->first_pull
    an_visited,     \* ctx->visited: the nodes of the current path
    an_levels,      \* ctx->levels: for each level, the neighbors still to return
    an_calls,       \* history: calls of AllNeighborsCtx_NextNeighbor
    an_out,         \* history: the destinations returned
    an_last,        \* history: what the last call returned

    \* ---- v13 graph decoder ----
    gd_keys,        \* the virtual keys of the graph: for each, the states of its payloads
    gd_indexed,     \* the schemas the encoded graph has an index on
    gd_pc,          \* "idle", "payloads": position in RdbLoadGraphContext_v13
    gd_key,         \* the virtual key being decoded (0: none)
    gd_payload,     \* payloads of the key decoded so far
    gd_order,       \* the virtual keys decoded or being decoded, in arrival order
    gd_gc,          \* the graph context exists
    gd_policy,      \* the matrix synchronisation policy of the graph
    gd_processed,   \* decoding_context: processed key count
    gd_key_count,   \* decoding_context: key count
    gd_allocated,   \* calls of _InitGraphDataStructure
    gd_entities,    \* a nodes or an edges payload was decoded
    gd_index,       \* for each schema: "none", "pending", "active"
    gd_finalized,   \* history: times the finalization ran
    gd_final_at,    \* history: keys that had arrived when it ran last
    gd_final_ops,   \* history: what the last finalization did, in order
    gd_pending,     \* Graph_Pending: some matrix of the graph has pending changes
    gd_node_labels, \* the node-label matrix of the graph is set
    gd_final_log    \* history: the calls of the last finalization, each with the
                    \* state it was made in

indexVars == <<entity_type, idx_state, pc, rdlocks, batch_size, indexed, it,
               index, popIndexed, exitState, windowEntries, writes, nodes,
               labelled, rowIdx, id, R, src_id, dest_id, edge_id, prev_src_id, prev_dest_id,
               info, popSlots, writesAtStart, lateEntries>>

matrixVars == <<dm_n, dm_M, dm_DP, dm_DM, dm_ops, dm_flushed, mit_attached,
                mit_pos, mit_out, mit_exhausted>>

scanVars == <<sc_pc, childCount, label_id, schema_exists, id_range, op_type,
              consume, iter, child_record, child_len, child_next, lm_nrows,
              lm_nodes, sc_calls, sc_last, sc_out, cfg_range, sc_op,
                   sc_deleted,
                   sc_dropped, sc_handed, sc_clone>>

snapshotVars == <<g_nodes, g_deleted_nodes, g_edges, g_deleted_edges,
                  g_relation_count, enc_state, enc_offset, enc_dbiter, enc_r,
                  enc_miter, enc_multi, enc_budgets, enc_last, enc_zero, enc_edges,
                  enc_nodes, enc_iters, io,
                  dec_done, dec>>

skipVars == <<sk_pc, skip, skipped, skip_exp, sk_error, exp_arg, params, cl_pc,
              cl_skip, cl_skipped, cl_skip_exp, cl_error, sk_calls, sk_passes,
              sk_out, sk_last, sk_deleted, sk_initial>>

csvVars == <<csv_pc, csv_has_child, csv_exp, csv_child, csv_files, csv_consume,
             csv_reset, csv_path, csv_reader, csv_child_record, csv_child_pos,
             csv_exceptions, csv_opened, csv_calls, csv_pass_calls, csv_resets,
             csv_out, csv_last>>

traverseVars == <<an_pc, an_M, an_src, an_minLen, an_maxLen, an_first_pull, an_visited, an_levels, an_calls, an_out, an_last>>

decodeVars == <<gd_keys, gd_indexed, gd_pc, gd_key, gd_payload, gd_order, gd_gc, gd_policy, gd_processed, gd_key_count, gd_allocated, gd_entities, gd_index, gd_finalized, gd_final_at, gd_final_ops, gd_pending, gd_node_labels, gd_final_log>>

vars == <<indexVars, matrixVars, scanVars, snapshotVars, skipVars, csvVars, traverseVars, decodeVars>>

\* what the steps of one subsystem leave alone
otherThanIndex == <<matrixVars, scanVars, snapshotVars, skipVars, csvVars, traverseVars, decodeVars>>

otherThanMatrix == <<indexVars, scanVars, snapshotVars, skipVars, csvVars, traverseVars, decodeVars>>

otherThanScan == <<indexVars, matrixVars, snapshotVars, skipVars, csvVars, traverseVars, decodeVars>>

otherThanSnapshot == <<indexVars, matrixVars, scanVars, skipVars, csvVars, traverseVars, decodeVars>>

\* Skip pulls and resets the scan below it
otherThanSkip == <<indexVars, matrixVars, snapshotVars, csvVars, traverseVars, decodeVars>>

otherThanCsv == <<indexVars, matrixVars, scanVars, snapshotVars, skipVars, traverseVars, decodeVars>>

otherThanTraverse == <<indexVars, matrixVars, scanVars, snapshotVars, skipVars, csvVars, decodeVars>>

otherThanDecode == <<indexVars, matrixVars, scanVars, snapshotVars, skipVars, csvVars, traverseVars>>

\* ------------------------------------------------------------------------
\* Matrix tuple iterator (rg_matrix_iter.h): row-major walk
\* ------------------------------------------------------------------------

\* ids the node store and the edge store can hand out
NodeIds == 0 .. (MaxNodeWrites - 1)
EdgeIds == 0 .. (MaxEdgeWrites - 1)

\* rows and columns of the relation matrix
Endpoints == 0 .. (MaxNodes - 1)
Slots == Endpoints \X Endpoints

\* row-major order on <<row, col>>
LexLt(a, b) == a[1] < b[1] \/ (a[1] = b[1] /\ a[2] < b[2])

\* RG_MatrixTupleIter_jump_to_row
RG_MatrixTupleIter_jump_to_row(r) == <<r, 0>>

\* entries of the logical matrix at or after the iterator's position
IterRest(E, pos) == {e \in E : ~LexLt(e, pos)}

\* RG_MatrixTupleIter_next_*: GrB_SUCCESS or GxB_EXHAUSTED
IterInfo(E, pos) == IF IterRest(E, pos) = {} THEN "GxB_EXHAUSTED" ELSE "GrB_SUCCESS"

\* the entry RG_MatrixTupleIter_next_* returns (when IterInfo is GrB_SUCCESS)
IterEntry(E, pos) ==
    CHOOSE e \in IterRest(E, pos) : \A f \in IterRest(E, pos) : ~LexLt(f, e)

\* the iterator's position once it returned entry e
IterAfter(e) == <<e[1], e[2] + 1>>

\* the label matrix is diagonal: L[i,i] iff node i carries the label
LabelEntries == {<<n, n>> : n \in labelled}

\* entries of the relation matrix
RelationEntries == {s \in Slots : R[s] # <<>>}

\* every edge stored in the relation matrix, with the slot that holds it
StoredEdges ==
    UNION {{<<R[s][k], s[1], s[2]>> : k \in 1 .. Len(R[s])} : s \in Slots}

\* ids of the edges stored in the relation matrix
StoredEdgeIds == {e[1] : e \in StoredEdges}

\* remove every occurrence of x from sequence q
RECURSIVE SeqRemove(_, _)
SeqRemove(q, x) ==
    IF q = <<>> THEN <<>>
    ELSE IF Head(q) = x THEN SeqRemove(Tail(q), x)
    ELSE <<Head(q)>> \o SeqRemove(Tail(q), x)

\* lowest element of a non-empty set of naturals
Min(S) == CHOOSE x \in S : \A y \in S : x <= y

\* ------------------------------------------------------------------------
\* Index population: the writers and the index life cycle
\* ------------------------------------------------------------------------

\* writers consult state == POPULATING || state == ACTIVE and update the
\* index directly in both
IndexIsWritable == idx_state \in {"POPULATING", "ACTIVE"}

\* a write query holds the graph's write lock, which excludes the populator's
\* read lock (rdlocks = 0 in the writers' guards); a commit is one step
\* the entity store hands out the lowest free id
NextFreeId(ids, live) == Min(ids \ live)

\* write query: create a node, carrying the indexed label or not
Graph_CreateNode(l) ==
    /\ entity_type = "NODE"
    /\ rdlocks = 0
    /\ writes < MaxNodeWrites
    /\ NodeIds \ nodes # {}
    /\ LET n == NextFreeId(NodeIds, nodes) IN
        /\ nodes' = nodes \cup {n}
        /\ labelled' = IF l THEN labelled \cup {n} ELSE labelled
        /\ index' = IF l /\ IndexIsWritable THEN index \cup {n} ELSE index
    /\ writes' = writes + 1
    /\ UNCHANGED <<windowEntries, entity_type, idx_state, pc, rdlocks, batch_size, indexed,
                   it, popIndexed, exitState, rowIdx, id, R, src_id, dest_id,
                   edge_id, prev_src_id, prev_dest_id, info>>
    /\ UNCHANGED <<popSlots, writesAtStart, lateEntries>>
    /\ UNCHANGED otherThanIndex

\* write query: delete a node
Graph_DeleteNode(n) ==
    /\ entity_type = "NODE"
    /\ rdlocks = 0
    /\ writes < MaxNodeWrites
    /\ n \in nodes
    /\ nodes' = nodes \ {n}
    /\ labelled' = labelled \ {n}
    /\ index' = IF IndexIsWritable THEN index \ {n} ELSE index
    /\ writes' = writes + 1
    /\ UNCHANGED <<windowEntries, entity_type, idx_state, pc, rdlocks, batch_size, indexed,
                   it, popIndexed, exitState, rowIdx, id, R, src_id, dest_id,
                   edge_id, prev_src_id, prev_dest_id, info>>
    /\ UNCHANGED <<popSlots, writesAtStart, lateEntries>>
    /\ UNCHANGED otherThanIndex

\* write query: create an edge of the indexed relation from s to d; an empty
\* slot takes the id, a single id becomes a two element array, an array grows
Graph_CreateEdge(s, d) ==
    /\ entity_type = "EDGE"
    /\ rdlocks = 0
    /\ writes < MaxEdgeWrites
    /\ EdgeIds \ StoredEdgeIds # {}
    /\ LET e == NextFreeId(EdgeIds, StoredEdgeIds) IN
        /\ R' = [R EXCEPT ![<<s, d>>] = Append(@, e)]
        /\ index' = IF IndexIsWritable THEN index \cup {<<e, s, d>>} ELSE index
    /\ writes' = writes + 1
    /\ UNCHANGED <<windowEntries, entity_type, idx_state, pc, rdlocks, batch_size, indexed,
                   it, popIndexed, exitState, nodes, labelled, rowIdx, id,
                   src_id, dest_id, edge_id, prev_src_id, prev_dest_id, info>>
    /\ UNCHANGED <<popSlots, writesAtStart, lateEntries>>
    /\ UNCHANGED otherThanIndex

\* write query: delete an edge; the array entry is removed and the slot is
\* downgraded to a direct id, or cleared
Graph_DeleteEdge(e) ==
    /\ entity_type = "EDGE"
    /\ rdlocks = 0
    /\ writes < MaxEdgeWrites
    /\ e \in StoredEdgeIds
    /\ R' = [s \in Slots |-> SeqRemove(R[s], e)]
    /\ index' = IF IndexIsWritable THEN {x \in index : x[1] # e} ELSE index
    /\ writes' = writes + 1
    /\ UNCHANGED <<windowEntries, entity_type, idx_state, pc, rdlocks, batch_size, indexed,
                   it, popIndexed, exitState, nodes, labelled, rowIdx, id,
                   src_id, dest_id, edge_id, prev_src_id, prev_dest_id, info>>
    /\ UNCHANGED <<popSlots, writesAtStart, lateEntries>>
    /\ UNCHANGED otherThanIndex

\* the index enters state POPULATING and the background task calls
\* Index_Populate (which asserts the state)
Indexer_PopulateIndex ==
    /\ pc = "idle"
    /\ idx_state = "CREATED"
    /\ idx_state' = "POPULATING"
    /\ pc' = "check"
    /\ UNCHANGED <<windowEntries, entity_type, rdlocks, batch_size, indexed, it, index,
                   popIndexed, exitState, writes, nodes, labelled, rowIdx, id,
                   R, src_id, dest_id, edge_id, prev_src_id, prev_dest_id,
                   info>>
    /\ writesAtStart' = writes
    /\ UNCHANGED <<popSlots, lateEntries>>
    /\ UNCHANGED otherThanIndex

\* another thread changes the state of the index while it is populated
Index_Drop ==
    /\ idx_state = "POPULATING"
    /\ idx_state' = "DROPPED"
    /\ UNCHANGED <<windowEntries, entity_type, pc, rdlocks, batch_size, indexed, it, index,
                   popIndexed, exitState, writes, nodes, labelled, rowIdx, id,
                   R, src_id, dest_id, edge_id, prev_src_id, prev_dest_id,
                   info>>
    /\ UNCHANGED <<popSlots, writesAtStart, lateEntries>>
    /\ UNCHANGED otherThanIndex

\* fault: Index_Enable activates the index whatever its state
Index_Enable_Always(st) == "ACTIVE"

\* Index_Enable: transitions the state to ACTIVE iff it is still POPULATING
Index_Enable(st) == IF st = "POPULATING" THEN "ACTIVE" ELSE st


\* ------------------------------------------------------------------------
\* Index population: _Index_PopulateNodeIndex, _Index_PopulateEdgeIndex,
\* Index_Populate
\* ------------------------------------------------------------------------

\* fault: the state check at the top of the loop never aborts
StateChanged_Never(st) == FALSE

\* if(idx->state != IDX_POPULATING) break;
StateChanged(st) == st # "POPULATING"

\* Graph_AcquireReadLock / Graph_ReleaseLock, on the populator's lock count
Graph_AcquireReadLock(n) == n + 1
Graph_ReleaseLock(n) == n - 1

\* fault: the early break forgets to release the read lock
ReleaseOnExhausted_Forgotten(n) == n

\* the release on the path that leaves the edge loop when the skip step
\* exhausts the iterator (if(info != GrB_SUCCESS) { Graph_ReleaseLock(g); break; })
ReleaseOnExhausted(n) == Graph_ReleaseLock(n)

\* loop condition of a batch: indexed < batch_size
BatchHasRoom(n, bs) == n < bs

\* if(indexed != batch_size): iterator depleted
IteratorDepleted(n, bs) == n # bs

\* fault: the next batch resumes one row too far
ResumeRow_Skip(i) == i + 2

\* fault: the next batch starts from the row of the last node again
ResumeRow_Same(i) == i

\* rowIdx = id + 1
ResumeRow(i) == i + 1

\* fault: the skip step stops at the last processed slot
PreviouslyIndexed_Before(s, d, ps, pd) == s = ps /\ d < pd

\* skip previously indexed edges:
\* src_id == prev_src_id && dest_id <= prev_dest_id
PreviouslyIndexed(s, d, ps, pd) == s = ps /\ d <= pd

\* SINGLE_EDGE(edge_id): a direct id, not a handle to an array of ids
SINGLE_EDGE(e) == Len(e) = 1

\* the edge id the skip step leaves in edge_id: RG_MatrixTupleIter_next_UINT64
\* is called with NULL for the value, so edge_id keeps what it held
SkipStepEdgeId(old, slotValue) == old

\* the count of entries processed with idx->state not POPULATING, after one
\* more entry is processed in state st
LateAfter(n, st) == IF st # "POPULATING" THEN n + 1 ELSE n

\* ---- _Index_PopulateNodeIndex ----

\* top of the loop: state check, indexed = 0
PopulateNode_Check ==
    /\ entity_type = "NODE"
    /\ pc = "check"
    /\ IF StateChanged(idx_state)
       THEN /\ pc' = "enable"
            /\ exitState' = idx_state
            /\ UNCHANGED indexed
       ELSE /\ pc' = "acquire"
            /\ indexed' = 0
            /\ UNCHANGED exitState
    /\ UNCHANGED <<windowEntries, entity_type, idx_state, rdlocks, batch_size, it, index,
                   popIndexed, writes, nodes, labelled, rowIdx, id, R, src_id,
                   dest_id, edge_id, prev_src_id, prev_dest_id, info>>
    /\ UNCHANGED <<popSlots, writesAtStart, lateEntries>>
    /\ UNCHANGED otherThanIndex

\* Graph_AcquireReadLock, attach to the label matrix, jump to rowIdx
PopulateNode_Acquire ==
    /\ entity_type = "NODE"
    /\ pc = "acquire"
    /\ rdlocks' = Graph_AcquireReadLock(rdlocks)
    /\ it' = RG_MatrixTupleIter_jump_to_row(rowIdx)
    /\ windowEntries' = 0
    /\ pc' = "batch"
    /\ UNCHANGED <<entity_type, idx_state, batch_size, indexed, index,
                   popIndexed, exitState, writes, nodes, labelled, rowIdx, id,
                   R, src_id, dest_id, edge_id, prev_src_id, prev_dest_id,
                   info>>
    /\ UNCHANGED <<popSlots, writesAtStart, lateEntries>>
    /\ UNCHANGED otherThanIndex

\* one turn of the batch loop: next node, Index_IndexNode, indexed++
PopulateNode_Batch ==
    /\ entity_type = "NODE"
    /\ pc = "batch"
    /\ IF BatchHasRoom(indexed, batch_size)
          /\ IterInfo(LabelEntries, it) = "GrB_SUCCESS"
       THEN LET e == IterEntry(LabelEntries, it) IN
            /\ id' = e[1]
            /\ it' = IterAfter(e)
            /\ index' = index \cup {e[1]}
            /\ popIndexed' = popIndexed \cup {e[1]}
            /\ indexed' = indexed + 1
            /\ windowEntries' = windowEntries + 1
            /\ popSlots' = Append(popSlots, e)
            /\ lateEntries' = LateAfter(lateEntries, idx_state)
            /\ UNCHANGED pc
       ELSE /\ pc' = "release"
            /\ UNCHANGED <<id, it, index, popIndexed, indexed, windowEntries, popSlots,
                           lateEntries>>
    /\ UNCHANGED <<entity_type, idx_state, rdlocks, batch_size, exitState,
                   writes, nodes, labelled, rowIdx, R, src_id, dest_id,
                   edge_id, prev_src_id, prev_dest_id, info>>
    /\ UNCHANGED writesAtStart
    /\ UNCHANGED otherThanIndex

\* Graph_ReleaseLock, then leave the loop or set the row to resume from
PopulateNode_Release ==
    /\ entity_type = "NODE"
    /\ pc = "release"
    /\ rdlocks' = Graph_ReleaseLock(rdlocks)
    /\ IF IteratorDepleted(indexed, batch_size)
       THEN /\ pc' = "enable"
            /\ exitState' = idx_state
            /\ UNCHANGED rowIdx
       ELSE /\ pc' = "check"
            /\ rowIdx' = ResumeRow(id)
            /\ UNCHANGED exitState
    /\ UNCHANGED <<windowEntries, entity_type, idx_state, batch_size, indexed, it, index,
                   popIndexed, writes, nodes, labelled, id, R, src_id,
                   dest_id, edge_id, prev_src_id, prev_dest_id, info>>
    /\ UNCHANGED <<popSlots, writesAtStart, lateEntries>>
    /\ UNCHANGED otherThanIndex


\* ---- _Index_PopulateEdgeIndex ----

\* top of the loop: state check, indexed = 0, prev_* = last processed slot
PopulateEdge_Check ==
    /\ entity_type = "EDGE"
    /\ pc = "check"
    /\ IF StateChanged(idx_state)
       THEN /\ pc' = "enable"
            /\ exitState' = idx_state
            /\ UNCHANGED <<indexed, prev_src_id, prev_dest_id>>
       ELSE /\ pc' = "acquire"
            /\ indexed' = 0
            /\ prev_src_id' = src_id
            /\ prev_dest_id' = dest_id
            /\ UNCHANGED exitState
    /\ UNCHANGED <<windowEntries, entity_type, idx_state, rdlocks, batch_size, it, index,
                   popIndexed, writes, nodes, labelled, rowIdx, id, R, src_id,
                   dest_id, edge_id, info>>
    /\ UNCHANGED <<popSlots, writesAtStart, lateEntries>>
    /\ UNCHANGED otherThanIndex

\* Graph_AcquireReadLock, attach to the relation matrix, jump to row src_id
PopulateEdge_Acquire ==
    /\ entity_type = "EDGE"
    /\ pc = "acquire"
    /\ rdlocks' = Graph_AcquireReadLock(rdlocks)
    /\ it' = RG_MatrixTupleIter_jump_to_row(src_id)
    /\ windowEntries' = 0
    /\ pc' = "skip"
    /\ UNCHANGED <<entity_type, idx_state, batch_size, indexed, index,
                   popIndexed, exitState, writes, nodes, labelled, rowIdx, id,
                   R, src_id, dest_id, edge_id, prev_src_id, prev_dest_id,
                   info>>
    /\ UNCHANGED <<popSlots, writesAtStart, lateEntries>>
    /\ UNCHANGED otherThanIndex

\* one turn of the loop that skips previously indexed edges; when the
\* iterator is exhausted the lock is released and the outer loop is left
PopulateEdge_Skip ==
    /\ entity_type = "EDGE"
    /\ pc = "skip"
    /\ info' = IterInfo(RelationEntries, it)
    /\ IF IterInfo(RelationEntries, it) = "GrB_SUCCESS"
       THEN LET e == IterEntry(RelationEntries, it) IN
            /\ src_id' = e[1]
            /\ dest_id' = e[2]
            /\ edge_id' = SkipStepEdgeId(edge_id, R[e])
            /\ it' = IterAfter(e)
            /\ pc' = IF PreviouslyIndexed(e[1], e[2], prev_src_id, prev_dest_id)
                     THEN "skip" ELSE "index"
            /\ UNCHANGED <<rdlocks, exitState>>
       ELSE /\ rdlocks' = ReleaseOnExhausted(rdlocks)
            /\ pc' = "enable"
            /\ exitState' = idx_state
            /\ UNCHANGED <<src_id, dest_id, edge_id, it>>
    /\ UNCHANGED <<windowEntries, entity_type, idx_state, batch_size, indexed, index,
                   popIndexed, writes, nodes, labelled, rowIdx, id, R,
                   prev_src_id, prev_dest_id>>
    /\ UNCHANGED <<popSlots, writesAtStart, lateEntries>>
    /\ UNCHANGED otherThanIndex

\* the edges Index_IndexEdge is called with for the current slot
EdgesToIndex ==
    IF SINGLE_EDGE(edge_id)
    THEN {<<edge_id[1], src_id, dest_id>>}
    ELSE {<<edge_id[k], src_id, dest_id>> : k \in 1 .. Len(edge_id)}

\* body of the do-while: index the edge(s) of the current slot, indexed++
PopulateEdge_Index ==
    /\ entity_type = "EDGE"
    /\ pc = "index"
    /\ index' = index \cup EdgesToIndex
    /\ popIndexed' = popIndexed \cup EdgesToIndex
    /\ edge_id' = IF SINGLE_EDGE(edge_id) THEN edge_id
                  ELSE <<edge_id[Len(edge_id)]>>
    /\ indexed' = indexed + 1
    /\ windowEntries' = windowEntries + 1
    /\ pc' = "advance"
    /\ UNCHANGED <<entity_type, idx_state, rdlocks, batch_size, it,
                   exitState, writes, nodes, labelled, rowIdx, id, R, src_id,
                   dest_id, prev_src_id, prev_dest_id, info>>
    /\ popSlots' = Append(popSlots, <<src_id, dest_id>>)
    /\ lateEntries' = LateAfter(lateEntries, idx_state)
    /\ UNCHANGED writesAtStart
    /\ UNCHANGED otherThanIndex

\* condition of the do-while: room in the batch and a next entry
PopulateEdge_Advance ==
    /\ entity_type = "EDGE"
    /\ pc = "advance"
    /\ IF BatchHasRoom(indexed, batch_size)
          /\ IterInfo(RelationEntries, it) = "GrB_SUCCESS"
       THEN LET e == IterEntry(RelationEntries, it) IN
            /\ src_id' = e[1]
            /\ dest_id' = e[2]
            /\ edge_id' = R[e]
            /\ it' = IterAfter(e)
            /\ pc' = "index"
       ELSE /\ pc' = "release"
            /\ UNCHANGED <<src_id, dest_id, edge_id, it>>
    /\ UNCHANGED <<windowEntries, entity_type, idx_state, rdlocks, batch_size, indexed,
                   index, popIndexed, exitState, writes, nodes, labelled,
                   rowIdx, id, R, prev_src_id, prev_dest_id, info>>
    /\ UNCHANGED <<popSlots, writesAtStart, lateEntries>>
    /\ UNCHANGED otherThanIndex

\* Graph_ReleaseLock, then leave the loop or go for the next batch
PopulateEdge_Release ==
    /\ entity_type = "EDGE"
    /\ pc = "release"
    /\ rdlocks' = Graph_ReleaseLock(rdlocks)
    /\ IF IteratorDepleted(indexed, batch_size)
       THEN /\ pc' = "enable"
            /\ exitState' = idx_state
       ELSE /\ pc' = "check"
            /\ UNCHANGED exitState
    /\ UNCHANGED <<windowEntries, entity_type, idx_state, batch_size, indexed, it, index,
                   popIndexed, writes, nodes, labelled, rowIdx, id, R, src_id,
                   dest_id, edge_id, prev_src_id, prev_dest_id, info>>
    /\ UNCHANGED <<popSlots, writesAtStart, lateEntries>>
    /\ UNCHANGED otherThanIndex

\* ---- Index_Populate ----

\* after the populate loop: try to enable the index, return
Index_Populate_Enable ==
    /\ pc = "enable"
    /\ idx_state' = Index_Enable(idx_state)
    /\ pc' = "done"
    /\ UNCHANGED <<windowEntries, entity_type, rdlocks, batch_size, indexed, it, index,
                   popIndexed, exitState, writes, nodes, labelled, rowIdx, id,
                   R, src_id, dest_id, edge_id, prev_src_id, prev_dest_id,
                   info>>
    /\ UNCHANGED <<popSlots, writesAtStart, lateEntries>>
    /\ UNCHANGED otherThanIndex

\* the locals of the populator and an empty graph, for index type et and
\* batch size bs
IndexStart(et, bs) ==
    /\ entity_type = et
    /\ idx_state = "CREATED"
    /\ pc = "idle"
    /\ rdlocks = 0
    /\ batch_size = bs
    /\ indexed = 0
    /\ it = <<0, 0>>
    /\ index = {}
    /\ popIndexed = {}
    /\ exitState = "none"
    /\ windowEntries = 0
    /\ popSlots = <<>>
    /\ writesAtStart = 0
    /\ lateEntries = 0
    /\ writes = 0
    /\ nodes = {}
    /\ labelled = {}
    /\ rowIdx = 0
    /\ id = 0
    /\ R = [s \in Slots |-> <<>>]
    /\ src_id = 0
    /\ dest_id = 0
    /\ edge_id = <<0>>
    /\ prev_src_id = 0
    /\ prev_dest_id = 0
    /\ info = "GrB_SUCCESS"

NextIndex ==
    \/ \E l \in BOOLEAN : Graph_CreateNode(l)
    \/ \E n \in NodeIds : Graph_DeleteNode(n)
    \/ \E s \in Endpoints, d \in Endpoints : Graph_CreateEdge(s, d)
    \/ \E e \in EdgeIds : Graph_DeleteEdge(e)
    \/ Indexer_PopulateIndex
    \/ Index_Drop
    \/ PopulateNode_Check
    \/ PopulateNode_Acquire
    \/ PopulateNode_Batch
    \/ PopulateNode_Release
    \/ PopulateEdge_Check
    \/ PopulateEdge_Acquire
    \/ PopulateEdge_Skip
    \/ PopulateEdge_Index
    \/ PopulateEdge_Advance
    \/ PopulateEdge_Release
    \/ Index_Populate_Enable

\* ------------------------------------------------------------------------
\* Delta-matrix: the logical matrix L over the triple (M, P+, P-)
\* ------------------------------------------------------------------------

\* cells of the largest matrix, and the cells inside an n x n matrix
Cells == (0 .. (MaxDim - 1)) \X (0 .. (MaxDim - 1))

CellsOf(n) == {c \in Cells : c[1] < n /\ c[2] < n}

\* the value the operation after k others writes: every write is told from
\* every other
NewValue(k) == k + 1

\* a matrix maps every cell to its value, NoEntry where nothing is stored
NoEntry == 0

EmptyMatrix == [c \in Cells |-> NoEntry]

Present(A, c) == A[c] # NoEntry

\* L[i,j] = (M[i,j] \/ P+[i,j]) /\ ~P-[i,j]
L_Defined(Mx, DP, DM, c) == (Present(Mx, c) \/ Present(DP, c)) /\ c \notin DM

\* the value read at a cell: the P+ entry wins over the M entry
CellValue(Mx, DP, c) == IF Present(DP, c) THEN DP[c] ELSE Mx[c]

\* get(i,j): defined iff L[i,j] holds; NoEntry stands for "not defined"
RG_Matrix_get(Mx, DP, DM, c) ==
    IF L_Defined(Mx, DP, DM, c) THEN CellValue(Mx, DP, c) ELSE NoEntry

EntriesOf(A) == {c \in Cells : Present(A, c)}

\* what the history variable holds unless the last operation was a flush
NotFlushed == [done |-> FALSE, add |-> {}, del |-> {}]

\* pending(): true iff either overlay is non-empty
RG_Matrix_pending(DP, DM) == EntriesOf(DP) # {} \/ DM # {}

\* flush folds P+ into M, then erases the P- entries from M
FoldAdditions(Mx, DP) == [c \in Cells |-> CellValue(Mx, DP, c)]

EraseDeletions(Mx, DM) == [c \in Cells |-> IF c \in DM THEN NoEntry ELSE Mx[c]]

FlushedMain_EraseFirst(Mx, DP, DM) == FoldAdditions(EraseDeletions(Mx, DM), DP)

FlushedMain(Mx, DP, DM) == EraseDeletions(FoldAdditions(Mx, DP), DM)

\* resize never shrinks
ResizedDim(n, k) == IF k > n THEN k ELSE n

\* set, clear, resize and flush are writer operations: none of them runs
\* while a reader iterates the matrix
MatrixWritable == ~mit_attached /\ dm_ops < MaxOps

\* set(i,j,v)
RG_Matrix_setElement(c, v) ==
    /\ MatrixWritable
    /\ c \in CellsOf(dm_n)
    /\ IF Present(dm_M, c)
       THEN /\ dm_DM' = dm_DM \cup {c}
            /\ dm_DP' = [dm_DP EXCEPT ![c] = v]
       ELSE /\ dm_DM' = dm_DM \ {c}
            /\ dm_DP' = [dm_DP EXCEPT ![c] = v]
    /\ dm_ops' = dm_ops + 1
    /\ dm_flushed' = NotFlushed
    /\ UNCHANGED <<dm_n, dm_M, mit_attached, mit_pos, mit_out, mit_exhausted>>
    /\ UNCHANGED otherThanMatrix

\* clear(i,j)
RG_Matrix_removeElement(c) ==
    /\ MatrixWritable
    /\ c \in CellsOf(dm_n)
    /\ IF Present(dm_DP, c)
       THEN /\ dm_DP' = [dm_DP EXCEPT ![c] = NoEntry]
            /\ dm_DM' = dm_DM
       ELSE IF Present(dm_M, c)
       THEN /\ dm_DM' = dm_DM \cup {c}
            /\ dm_DP' = dm_DP
       ELSE /\ dm_DM' = dm_DM
            /\ dm_DP' = dm_DP
    /\ dm_ops' = dm_ops + 1
    /\ dm_flushed' = NotFlushed
    /\ UNCHANGED <<dm_n, dm_M, mit_attached, mit_pos, mit_out, mit_exhausted>>
    /\ UNCHANGED otherThanMatrix

\* resize(n, n)
RG_Matrix_resize(k) ==
    /\ MatrixWritable
    /\ dm_n' = ResizedDim(dm_n, k)
    /\ dm_ops' = dm_ops + 1
    /\ dm_flushed' = NotFlushed
    /\ UNCHANGED <<dm_M, dm_DP, dm_DM, mit_attached, mit_pos, mit_out,
                   mit_exhausted>>
    /\ UNCHANGED otherThanMatrix

\* flush()
RG_Matrix_flush ==
    /\ MatrixWritable
    /\ dm_M' = FlushedMain(dm_M, dm_DP, dm_DM)
    /\ dm_DP' = EmptyMatrix
    /\ dm_DM' = {}
    /\ dm_ops' = dm_ops + 1
    /\ dm_flushed' = [done |-> TRUE, add |-> EntriesOf(dm_DP), del |-> dm_DM]
    /\ UNCHANGED <<dm_n, mit_attached, mit_pos, mit_out, mit_exhausted>>
    /\ UNCHANGED otherThanMatrix

\* --- the tuple iterator ---

\* row-major order with ascending columns inside a row
RowMajorLt(a, b) == a[1] < b[1] \/ (a[1] = b[1] /\ a[2] < b[2])

\* the cell after c in an n x n matrix (a cell of row n is past the end)
NextCell(c, n) == IF c[2] + 1 < n THEN <<c[1], c[2] + 1>> ELSE <<c[1] + 1, 0>>

PastEnd(c, n) == c[1] >= n

\* the iterator visits the union of M and P+ ...
InUnion(Mx, DP, c) == Present(Mx, c) \/ Present(DP, c)

\* ... and skips the cells of P-
Skipped_Never(DM, c) == FALSE

Skipped(DM, c) == c \in DM

\* the first cell at or after pos the iterator yields, <<n, 0>> when none
RECURSIVE SeekEntry(_, _, _, _, _)
SeekEntry(Mx, DP, DM, n, pos) ==
    IF PastEnd(pos, n) THEN <<n, 0>>
    ELSE IF InUnion(Mx, DP, pos) /\ ~Skipped(DM, pos) THEN pos
    ELSE SeekEntry(Mx, DP, DM, n, NextCell(pos, n))

\* attach(m): the pass starts at the first cell
RG_MatrixTupleIter_attach ==
    /\ ~mit_attached
    /\ mit_attached' = TRUE
    /\ mit_pos' = <<0, 0>>
    /\ mit_out' = <<>>
    /\ mit_exhausted' = FALSE
    /\ UNCHANGED <<dm_n, dm_M, dm_DP, dm_DM, dm_ops, dm_flushed>>
    /\ UNCHANGED otherThanMatrix

\* next(): yields (row, col, value), or returns EXHAUSTED
RG_MatrixTupleIter_next ==
    /\ mit_attached
    /\ ~mit_exhausted
    /\ LET e == SeekEntry(dm_M, dm_DP, dm_DM, dm_n, mit_pos)
       IN  IF PastEnd(e, dm_n)
           THEN /\ mit_exhausted' = TRUE
                /\ mit_pos' = e
                /\ mit_out' = mit_out
           ELSE /\ mit_out' = Append(mit_out,
                                     <<e[1], e[2], CellValue(dm_M, dm_DP, e)>>)
                /\ mit_pos' = NextCell(e, dm_n)
                /\ mit_exhausted' = FALSE
    /\ UNCHANGED <<dm_n, dm_M, dm_DP, dm_DM, dm_ops, dm_flushed, mit_attached>>
    /\ UNCHANGED otherThanMatrix

\* detach(): releases the iterator at the end of a pass
RG_MatrixTupleIter_detach ==
    /\ mit_attached
    /\ mit_exhausted
    /\ mit_attached' = FALSE
    /\ mit_pos' = <<0, 0>>
    /\ mit_out' = <<>>
    /\ mit_exhausted' = FALSE
    /\ UNCHANGED <<dm_n, dm_M, dm_DP, dm_DM, dm_ops, dm_flushed>>
    /\ UNCHANGED otherThanMatrix

\* a freshly created n x n matrix with nothing stored, no iterator attached
MatrixStart(n) ==
    /\ dm_n = n
    /\ dm_M = EmptyMatrix
    /\ dm_DP = EmptyMatrix
    /\ dm_DM = {}
    /\ dm_ops = 0
    /\ dm_flushed = NotFlushed
    /\ mit_attached = FALSE
    /\ mit_pos = <<0, 0>>
    /\ mit_out = <<>>
    /\ mit_exhausted = FALSE

NextMatrix ==
    \/ \E c \in Cells : RG_Matrix_setElement(c, NewValue(dm_ops))
    \/ \E c \in Cells : RG_Matrix_removeElement(c)
    \/ \E k \in 1 .. MaxDim : RG_Matrix_resize(k)
    \/ RG_Matrix_flush
    \/ RG_MatrixTupleIter_attach
    \/ RG_MatrixTupleIter_next
    \/ RG_MatrixTupleIter_detach

\* ------------------------------------------------------------------------
\* NodeByLabelScan (op_node_by_label_scan.c)
\* ------------------------------------------------------------------------

\* NodeID values are 0 .. MaxId; MaxId stands for UINT64_MAX
NodeIdValues == 0 .. MaxId

UINT64_MAX == MaxId

\* unsigned arithmetic of NodeID
WrapId(x) == x % (UINT64_MAX + 1)

GRAPH_UNKNOWN_LABEL == "GRAPH_UNKNOWN_LABEL"

\* the id of the one label of the graph
KnownLabel == "label_0"

NoRecord == <<>>

\* update_label_id: the label may not have been known when the plan was
\* prepared
update_label_id(lid, schema) ==
    IF lid # GRAPH_UNKNOWN_LABEL THEN lid
    ELSE IF schema THEN KnownLabel
    ELSE lid

\* UnsignedRange: [min, max] with either bound inclusive or exclusive
UnsignedRange_New ==
    [min |-> 0, max |-> UINT64_MAX, include_min |-> TRUE, include_max |-> TRUE,
     valid |-> TRUE]

UnsignedRange_IsValid(r) ==
    IF ~r.valid THEN FALSE
    ELSE IF r.include_min /\ r.include_max THEN r.min <= r.max
    ELSE r.min < r.max

\* the ids a range admits
UnsignedRange_ContainsValue(r, v) ==
    /\ r.valid
    /\ IF r.include_min THEN r.min <= v ELSE r.min < v
    /\ IF r.include_max THEN v <= r.max ELSE v < r.max

Revalidated(r) == [r EXCEPT !.valid = UnsignedRange_IsValid(r)]

\* UnsignedRange_TightenRange(range, OP_GE, v)
UnsignedRange_TightenRange_GE(r, v) ==
    IF ~r.valid THEN r
    ELSE Revalidated(IF r.min < v
                     THEN [r EXCEPT !.include_min = TRUE, !.min = v]
                     ELSE r)

\* UnsignedRange_TightenRange(range, OP_LT, v)
UnsignedRange_TightenRange_LT(r, v) ==
    IF ~r.valid THEN r
    ELSE Revalidated(IF r.max >= v
                     THEN [r EXCEPT !.include_max = FALSE, !.max = v]
                     ELSE r)

\* the ranges NodeByLabelScanOp_SetIDRange is called with
IdRanges ==
    {r \in [min : NodeIdValues, max : NodeIdValues, include_min : BOOLEAN,
            include_max : BOOLEAN, valid : BOOLEAN] :
        r.valid = UnsignedRange_IsValid([r EXCEPT !.valid = TRUE])}

\* the range of ConstructIterator after "make sure range is within matrix
\* bounds"
TightenedRange(r, nrows) ==
    UnsignedRange_TightenRange_LT(UnsignedRange_TightenRange_GE(r, 0), nrows)

MinId_Inclusive(r) == r.min

MinId(r) == IF r.include_min THEN r.min ELSE WrapId(r.min + 1)

MaxIdOf(r) == IF r.include_max THEN r.max ELSE WrapId(r.max - 1)

DetachedIter == [attached |-> FALSE, min_row |-> 0, max_row |-> 0, pos |-> 0]

\* RG_MatrixTupleIter_AttachRange: the pass starts at min_row
RG_MatrixTupleIter_AttachRange(lo, hi) ==
    [attached |-> TRUE, min_row |-> lo, max_row |-> hi, pos |-> lo]

\* ConstructIterator: the range it leaves in the operator, the iterator and
\* the result
ConstructIterator(r, it0, nrows) ==
    LET t == TightenedRange(r, nrows)
    IN  IF ~UnsignedRange_IsValid(t)
        THEN [id_range |-> t, iter |-> it0, info |-> "GrB_DIMENSION_MISMATCH"]
        ELSE [id_range |-> t,
              iter |-> RG_MatrixTupleIter_AttachRange(MinId(t), MaxIdOf(t)),
              info |-> "GrB_SUCCESS"]

\* ResetIterator: the iterator is built again, the result is dropped
ResetIterator_Keep(r, it0, nrows) ==
    [id_range |-> r, iter |-> it0, info |-> "GrB_SUCCESS"]

ResetIterator(r, it0, nrows) == ConstructIterator(r, it0, nrows)

\* rows of the label matrix the iterator has still to yield
RowsLeft(it0, lnodes, nrows) ==
    {n \in lnodes : n >= it0.pos /\ n <= it0.max_row /\ n < nrows}

\* RG_MatrixTupleIter_next_BOOL on the label matrix
ScanIterInfo(it0, lnodes, nrows) ==
    IF ~it0.attached THEN "GrB_NULL_POINTER"
    ELSE IF RowsLeft(it0, lnodes, nrows) = {} THEN "GxB_EXHAUSTED"
    ELSE "GrB_SUCCESS"

ScanIterRow(it0, lnodes, nrows) == Min(RowsLeft(it0, lnodes, nrows))

ScanIterAfter(it0, lnodes, nrows) ==
    IF ScanIterInfo(it0, lnodes, nrows) = "GrB_SUCCESS"
    THEN [it0 EXCEPT !.pos = ScanIterRow(it0, lnodes, nrows) + 1]
    ELSE it0

\* NodeByLabelScanInit, line by line
HasChildren(n) == n > 0

IteratorBuilt_Always(iterator_built) == TRUE

IteratorBuilt(iterator_built) == iterator_built = "GrB_SUCCESS"

\* a schema for the label is added to the graph after the plan was built
GraphContext_AddSchema ==
    /\ sc_pc = "built"
    /\ ~schema_exists
    /\ schema_exists' = TRUE
    /\ UNCHANGED <<sc_pc, childCount, label_id, id_range, op_type, consume,
                   iter, child_record, child_len, child_next, lm_nrows,
                   lm_nodes, sc_calls, sc_last, sc_out, cfg_range, sc_op,
                   sc_deleted,
                   sc_dropped, sc_handed, sc_clone>>
    /\ UNCHANGED otherThanScan

NodeByLabelScanOp_SetIDRange(r) ==
    /\ sc_pc = "built"
    /\ op_type = "OPType_NODE_BY_LABEL_SCAN"
    /\ id_range' = r
    /\ op_type' = "OPType_NODE_BY_LABEL_AND_ID_SCAN"
    /\ cfg_range' = r
    /\ UNCHANGED <<sc_pc, childCount, label_id, schema_exists, consume, iter,
                   child_record, child_len, child_next, lm_nrows, lm_nodes,
                   sc_calls, sc_last, sc_out, sc_op, sc_deleted,
                   sc_dropped, sc_handed, sc_clone>>
    /\ UNCHANGED otherThanScan

NodeByLabelScanInit ==
    /\ sc_pc = "built"
    /\ sc_pc' = "ready"
    /\ IF HasChildren(childCount)
       THEN /\ consume' = "NodeByLabelScanConsumeFromChild"
            /\ UNCHANGED <<id_range, iter>>
       ELSE IF label_id = GRAPH_UNKNOWN_LABEL
       THEN /\ consume' = "NodeByLabelScanNoOp"
            /\ UNCHANGED <<id_range, iter>>
       ELSE LET c == ConstructIterator(id_range, iter, lm_nrows)
            IN  /\ id_range' = c.id_range
                /\ iter' = c.iter
                /\ consume' = IF IteratorBuilt(c.info)
                              THEN "NodeByLabelScanConsume"
                              ELSE "NodeByLabelScanNoOp"
    /\ UNCHANGED <<childCount, label_id, schema_exists, op_type, child_record,
                   child_len, child_next, lm_nrows, lm_nodes, sc_calls,
                   sc_last, sc_out, cfg_range, sc_op,
                   sc_deleted,
                   sc_dropped, sc_handed, sc_clone>>
    /\ UNCHANGED otherThanScan

\* a consume or reset call may be made on the operator
ScanCallable == sc_pc = "ready" /\ sc_calls < MaxCalls

\* NodeByLabelScanNoOp
NodeByLabelScanNoOp ==
    /\ ScanCallable
    /\ consume = "NodeByLabelScanNoOp"
    /\ sc_last' = NoRecord
    /\ sc_calls' = sc_calls + 1
    /\ sc_op' = "consume"
    /\ UNCHANGED <<sc_pc, childCount, label_id, schema_exists, id_range,
                   op_type, consume, iter, child_record, child_len,
                   child_next, lm_nrows, lm_nodes, sc_out, cfg_range, sc_deleted,
                   sc_dropped, sc_handed, sc_clone>>
    /\ UNCHANGED otherThanScan

\* NodeByLabelScanConsume; its ASSERT(info == GrB_SUCCESS) fails on an
\* iterator that is not attached
NodeByLabelScanConsume ==
    /\ ScanCallable
    /\ consume = "NodeByLabelScanConsume"
    /\ LET res == ScanIterInfo(iter, lm_nodes, lm_nrows)
       IN  /\ iter' = ScanIterAfter(iter, lm_nodes, lm_nrows)
           /\ IF res = "GxB_EXHAUSTED"
              THEN /\ sc_last' = NoRecord
                   /\ UNCHANGED <<sc_out, sc_pc>>
              ELSE IF res = "GrB_SUCCESS"
              THEN /\ sc_last' = <<0, ScanIterRow(iter, lm_nodes, lm_nrows)>>
                   /\ sc_out' = Append(sc_out, sc_last')
                   /\ UNCHANGED sc_pc
              ELSE /\ sc_pc' = "undefined"
                   /\ UNCHANGED <<sc_last, sc_out>>
    /\ sc_calls' = sc_calls + 1
    /\ sc_op' = "consume"
    /\ UNCHANGED <<childCount, label_id, schema_exists, id_range, op_type,
                   consume, child_record, child_len, child_next, lm_nrows,
                   lm_nodes, cfg_range, sc_deleted,
                   sc_dropped, sc_handed, sc_clone>>
    /\ UNCHANGED otherThanScan

\* "try to get new nodeID": RG_MatrixTupleIter_next_BOOL(&op->iter, &nodeId)
TryNextNodeId(st) ==
    [st EXCEPT !.info = ScanIterInfo(st.iter, lm_nodes, lm_nrows),
               !.nodeId = IF ScanIterInfo(st.iter, lm_nodes, lm_nrows) = "GrB_SUCCESS"
                          THEN ScanIterRow(st.iter, lm_nodes, lm_nrows)
                          ELSE @,
               !.iter = ScanIterAfter(st.iter, lm_nodes, lm_nrows)]

\* fault: the held child record itself is handed upstream
OpBase_DeepCloneRecord_Shared(rec) == rec

\* OpBase_DeepCloneRecord(op->child_record): a record of its own, none of
\* the child's records
OpBase_DeepCloneRecord(rec) == 0

\* fault: the held child record is dropped without being deleted
OpBase_DeleteRecord_Leaked(deleted, rec) == deleted

\* if(op->child_record != NULL) OpBase_DeleteRecord(op->child_record)
OpBase_DeleteRecord(deleted, rec) == IF rec # 0 THEN Append(deleted, rec) ELSE deleted

\* OpBase_Consume(op->op.children[0]): the child's next record, 0 for NULL
ChildConsume(next) == IF next < child_len THEN next + 1 ELSE 0

\* the while loop of NodeByLabelScanConsumeFromChild. st holds the locals
\* and the fields the loop writes; depleted: the loop returned NULL;
\* undefined: ConstructIterator asked for the matrix of an unknown label
RECURSIVE FromChildLoop(_)
FromChildLoop(st) ==
    IF ~(st.info = "GrB_NULL_POINTER" \/ st.child_record = 0
         \/ st.info = "GxB_EXHAUSTED")
    THEN st
    ELSE LET rec == ChildConsume(st.child_next)
             got == [st EXCEPT !.deleted = OpBase_DeleteRecord(@, st.child_record),
                               !.child_record = rec,
                               !.child_next = IF rec # 0 THEN rec ELSE @]
         IN  IF rec = 0 THEN [got EXCEPT !.depleted = TRUE]
             ELSE IF st.info = "GrB_NULL_POINTER"
             THEN LET lid == update_label_id(st.label_id, schema_exists)
                      c == ConstructIterator(st.id_range, st.iter, lm_nrows)
                  IN  IF lid = GRAPH_UNKNOWN_LABEL
                      THEN [got EXCEPT !.undefined = TRUE]
                      ELSE IF c.info # "GrB_SUCCESS"
                      THEN FromChildLoop([got EXCEPT !.label_id = lid,
                                                     !.id_range = c.id_range])
                      ELSE FromChildLoop(TryNextNodeId(
                               [got EXCEPT !.label_id = lid,
                                           !.id_range = c.id_range,
                                           !.iter = c.iter]))
             ELSE LET c == ResetIterator(st.id_range, st.iter, lm_nrows)
                  IN  FromChildLoop(TryNextNodeId(
                          [got EXCEPT !.id_range = c.id_range, !.iter = c.iter]))

\* NodeByLabelScanConsumeFromChild
NodeByLabelScanConsumeFromChild ==
    /\ ScanCallable
    /\ consume = "NodeByLabelScanConsumeFromChild"
    /\ LET st == FromChildLoop(TryNextNodeId(
                     [info |-> "GrB_NULL_POINTER", nodeId |-> 0, iter |-> iter,
                      child_record |-> child_record, child_next |-> child_next,
                      label_id |-> label_id, id_range |-> id_range,
                      deleted |-> sc_deleted, depleted |-> FALSE,
                      undefined |-> FALSE]))
       IN  /\ iter' = st.iter
           /\ child_record' = st.child_record
           /\ child_next' = st.child_next
           /\ label_id' = st.label_id
           /\ id_range' = st.id_range
           /\ sc_deleted' = st.deleted
           /\ sc_handed' = IF st.undefined \/ st.depleted THEN 0
                           ELSE OpBase_DeepCloneRecord(st.child_record)
           /\ UNCHANGED <<sc_dropped, sc_clone>>
           /\ sc_pc' = IF st.undefined THEN "undefined" ELSE sc_pc
           /\ IF st.undefined THEN UNCHANGED <<sc_last, sc_out>>
              ELSE IF st.depleted
              THEN /\ sc_last' = NoRecord
                   /\ UNCHANGED sc_out
              ELSE /\ sc_last' = <<st.child_record, st.nodeId>>
                   /\ sc_out' = Append(sc_out, sc_last')
    /\ sc_calls' = sc_calls + 1
    /\ sc_op' = "consume"
    /\ UNCHANGED <<childCount, schema_exists, op_type, consume, child_len,
                   lm_nrows, lm_nodes, cfg_range>>
    /\ UNCHANGED otherThanScan

\* NodeByLabelScanReset (the plan resets the child with it); ResetIterator
\* asks for the matrix of the label whether or not the label is known
NodeByLabelScanReset ==
    /\ ScanCallable
    /\ child_record' = 0
    /\ child_next' = 0
    /\ IF label_id = GRAPH_UNKNOWN_LABEL
       THEN /\ sc_pc' = "undefined"
            /\ UNCHANGED <<id_range, iter>>
       ELSE LET c == ResetIterator(id_range, iter, lm_nrows)
            IN  /\ id_range' = c.id_range
                /\ iter' = c.iter
                /\ UNCHANGED sc_pc
    /\ sc_calls' = sc_calls + 1
    /\ sc_last' = NoRecord
    /\ sc_out' = <<>>
    /\ sc_deleted' = <<>>
    /\ sc_dropped' = child_record
    /\ sc_handed' = 0
    /\ sc_op' = "reset"
    /\ UNCHANGED sc_clone
    /\ UNCHANGED <<childCount, label_id, schema_exists, op_type, consume,
                   child_len, lm_nrows, lm_nodes, cfg_range>>
    /\ UNCHANGED otherThanScan

\* no clone of the operator was asked for
NotCloned == [status |-> "none", op_type |-> "none", id_range |-> UnsignedRange_New]

\* ASSERT(opBase->type == OPType_NODE_BY_LABEL_SCAN) in a build that keeps
\* assertions
CloneAsserted(kept, type) == kept /\ type # "OPType_NODE_BY_LABEL_SCAN"

\* NodeByLabelScanClone: NewNodeByLabelScanOp(plan, NodeScanCtx_Clone(op->n)),
\* an operator of type OPType_NODE_BY_LABEL_SCAN with the range of
\* UnsignedRange_New. The assertion on the type of the original is kept by
\* some builds and compiled out by others. A plan is cloned from its
\* template, whose operators are never initialised.
NodeByLabelScanClone(assertions) ==
    /\ sc_pc = "built"
    /\ sc_clone = NotCloned
    /\ sc_clone' = IF CloneAsserted(assertions, op_type)
                   THEN [status |-> "assertion failed", op_type |-> "none",
                         id_range |-> UnsignedRange_New]
                   ELSE [status |-> "cloned", op_type |-> "OPType_NODE_BY_LABEL_SCAN",
                         id_range |-> UnsignedRange_New]
    /\ UNCHANGED <<sc_pc, childCount, label_id, schema_exists, id_range, op_type,
                   consume, iter, child_record, child_len, child_next, lm_nrows,
                   lm_nodes, sc_calls, sc_last, sc_out, cfg_range, sc_op,
                   sc_deleted, sc_dropped, sc_handed>>
    /\ UNCHANGED otherThanScan

\* NodeByLabelScanFree: the iterator is detached and the held child record
\* deleted
NodeByLabelScanFree ==
    /\ sc_pc \in {"built", "ready"}
    /\ sc_pc' = "freed"
    /\ iter' = DetachedIter
    /\ sc_dropped' = child_record
    /\ child_record' = 0
    /\ sc_handed' = 0
    /\ sc_last' = NoRecord
    /\ sc_op' = "free"
    /\ UNCHANGED <<childCount, label_id, schema_exists, id_range, op_type, consume,
                   child_len, child_next, lm_nrows, lm_nodes, sc_calls, sc_out,
                   cfg_range, sc_deleted, sc_clone>>
    /\ UNCHANGED otherThanScan

\* the operator NewNodeByLabelScanOp returns, over a label matrix of nrows
\* rows whose labelled lnodes are lnodes, above a child of clen records
ScanStart(cc, lid, schema, nrows, lnodes, clen) ==
    /\ sc_pc = "built"
    /\ childCount = cc
    /\ label_id = update_label_id(lid, schema)
    /\ schema_exists = schema
    /\ id_range = UnsignedRange_New
    /\ op_type = "OPType_NODE_BY_LABEL_SCAN"
    /\ consume = "NodeByLabelScanConsume"
    /\ iter = DetachedIter
    /\ child_record = 0
    /\ child_len = clen
    /\ child_next = 0
    /\ lm_nrows = nrows
    /\ lm_nodes = lnodes
    /\ sc_calls = 0
    /\ sc_last = NoRecord
    /\ sc_out = <<>>
    /\ cfg_range = UnsignedRange_New
    /\ sc_op = "none"
    /\ sc_deleted = <<>>
    /\ sc_dropped = 0
    /\ sc_handed = 0
    /\ sc_clone = NotCloned

NextScan ==
    \/ GraphContext_AddSchema
    \/ \E r \in IdRanges : NodeByLabelScanOp_SetIDRange(r)
    \/ NodeByLabelScanInit
    \/ NodeByLabelScanNoOp
    \/ NodeByLabelScanConsume
    \/ NodeByLabelScanConsumeFromChild
    \/ NodeByLabelScanReset
    \/ NodeByLabelScanFree
    \/ \E assertions \in BOOLEAN : NodeByLabelScanClone(assertions)

\* ------------------------------------------------------------------------
\* Snapshot encoding, version 14 (encode_graph_entities.c)
\* ------------------------------------------------------------------------

\* SIType tags
T_MAP == 2 ^ 0
T_ARRAY == 2 ^ 3
T_STRING == 2 ^ 11
T_BOOL == 2 ^ 12
T_INT64 == 2 ^ 13
T_DOUBLE == 2 ^ 14
T_NULL == 2 ^ 15
T_POINT == 2 ^ 17
T_VECTOR_F32 == 2 ^ 18

\* An SIValue is <<type, body>>: the longval of a bool or an int64, the
\* doubleval of a double, the characters of a string (without the NUL),
\* the elements of an array, <<lat, lon>> of a point, the elements of a
\* vector, the <<key, value>> pairs of a map, <<>> for null.
\* Doubles are integers here and the floats are the even ones, so that a
\* double narrowed to a float may lose something.
FloatOfDouble(d) == 2 * (d \div 2)

DoubleOfFloat(f) == f

\* what SerializerIO writes: one token per call
SerializerIO_WriteUnsigned(n) == <<"unsigned", n>>

SerializerIO_WriteSigned(n) == <<"signed", n>>

SerializerIO_WriteDouble(d) == <<"double", d>>

SerializerIO_WriteFloat(f) == <<"float", f>>

\* the first len bytes at a NUL-terminated string
SerializerIO_WriteBuffer(stringval, len) ==
    <<"buffer", SubSeq(stringval \o <<0>>, 1, len)>>

strlen(stringval) == Len(stringval)

StringBufferLen_NoTerminator(stringval) == strlen(stringval)

StringBufferLen(stringval) == strlen(stringval) + 1

RECURSIVE RdbSaveSIValue(_)
RECURSIVE RdbSaveSIValues(_)
RECURSIVE RdbSaveFloats(_)
RECURSIVE RdbSavePairs(_)

\* the loop of RdbSaveSIArray
RdbSaveSIValues(list) ==
    IF list = <<>> THEN <<>>
    ELSE RdbSaveSIValue(Head(list)) \o RdbSaveSIValues(Tail(list))

RdbSaveSIArray(list) ==
    <<SerializerIO_WriteUnsigned(Len(list))>> \o RdbSaveSIValues(list)

\* the loop of RdbSaveSIVector
RdbSaveFloats(values) ==
    IF values = <<>> THEN <<>>
    ELSE <<SerializerIO_WriteFloat(Head(values))>> \o RdbSaveFloats(Tail(values))

RdbSaveSIVector(values) ==
    <<SerializerIO_WriteUnsigned(Len(values))>> \o RdbSaveFloats(values)

\* the loop of RdBSaveMap
RdbSavePairs(pairs) ==
    IF pairs = <<>> THEN <<>>
    ELSE RdbSaveSIValue(Head(pairs)[1]) \o RdbSaveSIValue(Head(pairs)[2])
            \o RdbSavePairs(Tail(pairs))

RdBSaveMap(pairs) ==
    <<SerializerIO_WriteUnsigned(Len(pairs))>> \o RdbSavePairs(pairs)

RdbSaveSIValue(v) ==
    <<SerializerIO_WriteUnsigned(v[1])>> \o
    (IF v[1] = T_BOOL \/ v[1] = T_INT64 THEN <<SerializerIO_WriteSigned(v[2])>>
     ELSE IF v[1] = T_DOUBLE THEN <<SerializerIO_WriteDouble(v[2])>>
     ELSE IF v[1] = T_STRING
     THEN <<SerializerIO_WriteBuffer(v[2], StringBufferLen(v[2]))>>
     ELSE IF v[1] = T_ARRAY THEN RdbSaveSIArray(v[2])
     ELSE IF v[1] = T_POINT
     THEN <<SerializerIO_WriteDouble(DoubleOfFloat(v[2][1])),
            SerializerIO_WriteDouble(DoubleOfFloat(v[2][2]))>>
     ELSE IF v[1] = T_VECTOR_F32 THEN RdbSaveSIVector(v[2])
     ELSE IF v[1] = T_MAP THEN RdBSaveMap(v[2])
     ELSE <<>>)

\* the loop of RdbSaveEntity over the attribute set
RECURSIVE RdbSaveAttributes(_)
RdbSaveAttributes(attrs) ==
    IF attrs = <<>> THEN <<>>
    ELSE <<SerializerIO_WriteUnsigned(Head(attrs)[1])>>
            \o RdbSaveSIValue(Head(attrs)[2]) \o RdbSaveAttributes(Tail(attrs))

RdbSaveEntity(attrs) ==
    <<SerializerIO_WriteUnsigned(Len(attrs))>> \o RdbSaveAttributes(attrs)

RdbSaveEdge(edgeID, src, dest, r, attrs) ==
    <<SerializerIO_WriteUnsigned(edgeID), SerializerIO_WriteUnsigned(src),
      SerializerIO_WriteUnsigned(dest), SerializerIO_WriteUnsigned(r)>>
        \o RdbSaveEntity(attrs)

RECURSIVE RdbSaveLabels(_)
RdbSaveLabels(labels) ==
    IF labels = <<>> THEN <<>>
    ELSE <<SerializerIO_WriteUnsigned(Head(labels))>> \o RdbSaveLabels(Tail(labels))

RdbSaveNode_v14(nodeId, labels, attrs) ==
    <<SerializerIO_WriteUnsigned(nodeId), SerializerIO_WriteUnsigned(Len(labels))>>
        \o RdbSaveLabels(labels) \o RdbSaveEntity(attrs)

\* RdbSaveDeletedEntities_v14: deleted_id_list[offset .. offset + n - 1]
RECURSIVE RdbSaveDeletedEntities_v14(_, _, _)
RdbSaveDeletedEntities_v14(deleted_id_list, offset, n) ==
    IF n = 0 THEN <<>>
    ELSE <<SerializerIO_WriteUnsigned(deleted_id_list[offset + 1])>>
            \o RdbSaveDeletedEntities_v14(deleted_id_list, offset + 1, n - 1)

\* --- the graph being saved ---
\* g_nodes[i] and g_edges[i] are the slots of entity id i - 1 in the node
\* and edge stores; a deleted slot has live = FALSE and its id is in the
\* deleted-ID list of the store.

\* the elements of a set of naturals in ascending order
RECURSIVE AscSeq(_)
AscSeq(S) == IF S = {} THEN <<>> ELSE <<Min(S)>> \o AscSeq(S \ {Min(S)})

LiveIds(store) == {i - 1 : i \in {k \in 1 .. Len(store) : store[k].live}}

Graph_NodeCount == Cardinality(LiveIds(g_nodes))

Graph_EdgeCount == Cardinality(LiveIds(g_edges))

Graph_RelationTypeCount == g_relation_count

\* the entries of relation matrix r
Graph_GetRelationMatrix(edges, r) ==
    {<<edges[i + 1].src, edges[i + 1].dest>> :
        i \in {k \in LiveIds(edges) : edges[k + 1].rel = r}}

\* the value of relation matrix r at a slot: the ids of the edges there (a
\* single id, or the array of a multi-edge)
RelationValue(edges, r, slot) ==
    AscSeq({k \in LiveIds(edges) :
                /\ edges[k + 1].rel = r
                /\ <<edges[k + 1].src, edges[k + 1].dest>> = slot})

\* Graph_RelationshipContainsMultiEdge
ContainsMultiEdge(edges, r) ==
    \E slot \in Graph_GetRelationMatrix(edges, r) :
        Len(RelationValue(edges, r, slot)) > 1

\* --- the encoding context ---
NoDataBlockIterator == [created |-> FALSE, pos |-> 0]

\* Graph_ScanNodes
Graph_ScanNodes == [created |-> TRUE, pos |-> 0]

DetachedTupleIter == [attached |-> FALSE, matrix |-> 0, pos |-> <<0, 0>>]

\* RG_MatrixTupleIter_attach(iter, M) for M the matrix of relation r
TupleIterAttach(r) == [attached |-> TRUE, matrix |-> r, pos |-> <<0, 0>>]

\* an iterator that is taken as attached to no matrix
TupleIterIsAttached_Never(itr, r) == FALSE

\* RG_MatrixTupleIter_is_attached(iter, M)
TupleIterIsAttached(itr, r) == itr.attached /\ itr.matrix = r

NoMultipleEdges == [array |-> <<>>, index |-> 0, src |-> 0, dest |-> 0]

\* --- RdbSaveNodes_v14 ---

\* DataBlockIterator_Next: the next slot that is not deleted
DataBlockIterator_Next(store, pos) == Min({k \in LiveIds(store) : k >= pos})

\* the for loop of RdbSaveNodes_v14
RECURSIVE SaveNodesLoop(_, _, _)
SaveNodesLoop(out, pos, n) ==
    IF n = 0 THEN [out |-> out, pos |-> pos, ids |-> <<>>]
    ELSE LET nodeId == DataBlockIterator_Next(g_nodes, pos)
             rest == SaveNodesLoop(out \o RdbSaveNode_v14(nodeId, g_nodes[nodeId + 1].labels,
                                                          g_nodes[nodeId + 1].attrs),
                                   nodeId + 1, n - 1)
         IN  [rest EXCEPT !.ids = <<nodeId>> \o @]

\* a check that takes every call as the last one
DoneEncoding_Always(offset, n, total) == TRUE

\* "check if done encoding": offset + entities_to_encode == graph entities
DoneEncoding(offset, n, total) == offset + n = total

\* --- RdbSaveEdges_v14 ---

\* the while loop of RdbSaveMultipleEdges
RECURSIVE RdbSaveMultipleEdges_Whole(_, _)
RdbSaveMultipleEdges_Whole(st, edges_to_encode) ==
    IF st.index < Len(st.array)
    THEN LET edgeID == st.array[st.index + 1]
         IN  RdbSaveMultipleEdges_Whole(
                 [st EXCEPT !.out = @ \o RdbSaveEdge(edgeID, st.src, st.dest, st.r,
                                                     g_edges[edgeID + 1].attrs),
                            !.ids = Append(@, edgeID),
                            !.saved = Append(@, <<edgeID, st.src, st.dest, st.r>>),
                            !.index = @ + 1,
                            !.encoded_edges = @ + 1],
                 edges_to_encode)
    ELSE st

RECURSIVE RdbSaveMultipleEdges(_, _)
RdbSaveMultipleEdges(st, edges_to_encode) ==
    IF st.index < Len(st.array) /\ st.encoded_edges < edges_to_encode
    THEN LET edgeID == st.array[st.index + 1]
         IN  RdbSaveMultipleEdges(
                 [st EXCEPT !.out = @ \o RdbSaveEdge(edgeID, st.src, st.dest, st.r,
                                                     g_edges[edgeID + 1].attrs),
                            !.ids = Append(@, edgeID),
                            !.saved = Append(@, <<edgeID, st.src, st.dest, st.r>>),
                            !.index = @ + 1,
                            !.encoded_edges = @ + 1],
                 edges_to_encode)
    ELSE st

\* "try to get next tuple" with the loop "while(info == GxB_EXHAUSTED)":
\* the relation and the iterator it ends with; found = FALSE when it left
\* through "if(r == relation_count) goto finish"
RECURSIVE NextTuple(_)
NextTuple(st) ==
    LET M == Graph_GetRelationMatrix(g_edges, st.r)
    IN  IF IterInfo(M, st.iter.pos) = "GrB_SUCCESS"
        THEN LET e == IterEntry(M, st.iter.pos)
             IN  [st EXCEPT !.src = e[1], !.dest = e[2],
                            !.iter = [@ EXCEPT !.pos = IterAfter(e)],
                            !.found = TRUE]
        ELSE IF st.r + 1 = Graph_RelationTypeCount
        THEN [st EXCEPT !.r = @ + 1, !.found = FALSE]
        ELSE NextTuple([st EXCEPT !.r = @ + 1, !.iter = TupleIterAttach(st.r + 1)])

\* the loop "while(encoded_edges < edges_to_encode)"
RECURSIVE SaveEdgesLoop(_, _)
SaveEdgesLoop(st, edges_to_encode) ==
    IF ~(st.encoded_edges < edges_to_encode) THEN st
    ELSE LET t == NextTuple(st)
         IN  IF ~t.found THEN t
             ELSE LET edgeID == RelationValue(g_edges, t.r, <<t.src, t.dest>>)
                  IN  IF SINGLE_EDGE(edgeID)
                      THEN SaveEdgesLoop(
                               [t EXCEPT !.out = @ \o RdbSaveEdge(edgeID[1], t.src, t.dest, t.r,
                                                                  g_edges[edgeID[1] + 1].attrs),
                                         !.ids = Append(@, edgeID[1]),
                                         !.saved = Append(@, <<edgeID[1], t.src, t.dest, t.r>>),
                                         !.encoded_edges = @ + 1],
                               edges_to_encode)
                      ELSE LET m == RdbSaveMultipleEdges([t EXCEPT !.array = edgeID],
                                                         edges_to_encode)
                           IN  IF m.encoded_edges = edges_to_encode THEN m
                               ELSE SaveEdgesLoop([m EXCEPT !.array = <<>>, !.index = 0],
                                                  edges_to_encode)

\* RdbSaveEdges_v14 up to the label finish: the locals when it gets there
SaveEdgesBody(edges_to_encode) ==
    LET st0 == [encoded_edges |-> 0,
                r |-> enc_r,
                iter |-> IF TupleIterIsAttached(enc_miter, enc_r) THEN enc_miter
                         ELSE TupleIterAttach(enc_r),
                array |-> enc_multi.array,
                index |-> enc_multi.index,
                src |-> enc_multi.src,
                dest |-> enc_multi.dest,
                found |-> TRUE,
                ids |-> <<>>,
                saved |-> <<>>,
                out |-> <<>>]
    IN  IF st0.array # <<>>
        THEN LET m == RdbSaveMultipleEdges(st0, edges_to_encode)
             IN  IF m.encoded_edges = edges_to_encode THEN m
                 ELSE SaveEdgesLoop([m EXCEPT !.array = <<>>, !.index = 0],
                                    edges_to_encode)
        ELSE SaveEdgesLoop(st0, edges_to_encode)

\* --- the caller of the payload writers ---
\* The caller walks the payload types in order, asks a writer for some of
\* the entities that remain, and keeps the processed-entities offset of the
\* context: the entities of the current type written by earlier calls.
EncodePhases == <<"NODES", "DELETED_NODES", "EDGES", "DELETED_EDGES">>

PhaseTotal(p) ==
    CASE p = "NODES" -> Graph_NodeCount
      [] p = "DELETED_NODES" -> Len(g_deleted_nodes)
      [] p = "EDGES" -> Graph_EdgeCount
      [] p = "DELETED_EDGES" -> Len(g_deleted_edges)

\* the first payload type from the k-th on that has entities
RECURSIVE PhaseFrom(_)
PhaseFrom(k) ==
    IF k > Len(EncodePhases) THEN "DONE"
    ELSE IF PhaseTotal(EncodePhases[k]) > 0 THEN EncodePhases[k]
    ELSE PhaseFrom(k + 1)

PhaseIndex(p) == CHOOSE k \in 1 .. Len(EncodePhases) : EncodePhases[k] = p

\* the payload type the caller is at once n more entities are written
PhaseAfter(p, offset, n) ==
    IF offset + n = PhaseTotal(p) THEN PhaseFrom(PhaseIndex(p) + 1) ELSE p

OffsetAfter(p, offset, n) == IF offset + n = PhaseTotal(p) THEN 0 ELSE offset + n

\* a payload records its type and its entity count
PayloadHeader(p, n) ==
    <<SerializerIO_WriteUnsigned(PhaseIndex(p)), SerializerIO_WriteUnsigned(n)>>

\* the budgets the caller may ask for
Budgets(p) == 1 .. (PhaseTotal(p) - enc_offset)

\* a call with budget 0
ZeroBudget == IF enc_zero < MaxZeroBudgets THEN {0} ELSE {}

\* a payload writer call: the payload type, the budget, the ids of the
\* entities written and the processed-entities offset it started from
WriterCall(p, n, ids) == [phase |-> p, asked |-> n, ids |-> ids, offset |-> enc_offset]

\* "if(nodes_to_encode == 0) return;" and the like
ReturnedAtOnce(p) ==
    /\ enc_last' = WriterCall(p, 0, <<>>)
    /\ enc_zero' = enc_zero + 1
    /\ UNCHANGED <<io, enc_state, enc_offset, enc_dbiter, enc_r, enc_miter, enc_multi,
                   enc_budgets, enc_edges, enc_nodes, enc_iters>>

\* the ids a deleted-entities payload holds
WrittenIds(out) == [i \in 1 .. Len(out) |-> out[i][2]]

RECURSIVE MultiEdgeFlags(_)
MultiEdgeFlags(r) ==
    IF r = Graph_RelationTypeCount THEN <<>>
    ELSE <<SerializerIO_WriteUnsigned(IF ContainsMultiEdge(g_edges, r) THEN 1 ELSE 0)>>
            \o MultiEdgeFlags(r + 1)

\* the header: node count, edge count, deleted node count, deleted edge
\* count, relation matrix count, per-relation multi-edge flag
RdbSaveHeader ==
    /\ enc_state = "HEADER"
    /\ io' = <<SerializerIO_WriteUnsigned(Graph_NodeCount),
               SerializerIO_WriteUnsigned(Graph_EdgeCount),
               SerializerIO_WriteUnsigned(Len(g_deleted_nodes)),
               SerializerIO_WriteUnsigned(Len(g_deleted_edges)),
               SerializerIO_WriteUnsigned(Graph_RelationTypeCount)>>
              \o MultiEdgeFlags(0)
    /\ enc_state' = PhaseFrom(1)
    /\ UNCHANGED <<g_nodes, g_deleted_nodes, g_edges, g_deleted_edges,
                   g_relation_count, enc_offset, enc_dbiter, enc_r, enc_miter,
                   enc_multi, enc_budgets, enc_last, enc_zero, enc_edges,
                   enc_nodes, enc_iters, dec_done, dec>>
    /\ UNCHANGED otherThanSnapshot

RdbSaveNodes_v14(nodes_to_encode) ==
    /\ enc_state = "NODES"
    /\ nodes_to_encode \in ZeroBudget \cup Budgets("NODES")
    /\ IF nodes_to_encode = 0
       THEN ReturnedAtOnce("NODES")
       ELSE /\ LET started == IF ~enc_dbiter.created THEN Graph_ScanNodes ELSE enc_dbiter
                   l == SaveNodesLoop(<<>>, started.pos, nodes_to_encode)
               IN  /\ io' = io \o PayloadHeader("NODES", nodes_to_encode) \o l.out
                   /\ enc_dbiter' = IF DoneEncoding(enc_offset, nodes_to_encode, Graph_NodeCount)
                                    THEN NoDataBlockIterator
                                    ELSE [started EXCEPT !.pos = l.pos]
                   /\ enc_last' = WriterCall("NODES", nodes_to_encode, l.ids)
                   /\ enc_nodes' = enc_nodes \o l.ids
                   /\ enc_iters' =
                          [created |-> enc_iters.created
                                       + (IF ~enc_dbiter.created THEN 1 ELSE 0),
                           freed |-> enc_iters.freed
                                     + (IF DoneEncoding(enc_offset, nodes_to_encode,
                                                        Graph_NodeCount)
                                        THEN 1 ELSE 0)]
            /\ enc_zero' = 0
            /\ enc_state' = PhaseAfter("NODES", enc_offset, nodes_to_encode)
            /\ enc_offset' = OffsetAfter("NODES", enc_offset, nodes_to_encode)
            /\ enc_budgets' = Append(enc_budgets, <<"NODES", nodes_to_encode>>)
    /\ UNCHANGED <<g_nodes, g_deleted_nodes, g_edges, g_deleted_edges,
                   g_relation_count, enc_r, enc_miter, enc_multi, enc_edges,
                   dec_done, dec>>
    /\ UNCHANGED otherThanSnapshot

RdbSaveDeletedNodes_v14(deleted_nodes_to_encode) ==
    /\ enc_state = "DELETED_NODES"
    /\ deleted_nodes_to_encode \in ZeroBudget \cup Budgets("DELETED_NODES")
    /\ IF deleted_nodes_to_encode = 0
       THEN ReturnedAtOnce("DELETED_NODES")
       ELSE /\ LET written == RdbSaveDeletedEntities_v14(g_deleted_nodes, enc_offset,
                                                         deleted_nodes_to_encode)
               IN  /\ io' = io \o PayloadHeader("DELETED_NODES", deleted_nodes_to_encode) \o written
                   /\ enc_last' = WriterCall("DELETED_NODES", deleted_nodes_to_encode, WrittenIds(written))
            /\ enc_zero' = 0
            /\ enc_state' = PhaseAfter("DELETED_NODES", enc_offset, deleted_nodes_to_encode)
            /\ enc_offset' = OffsetAfter("DELETED_NODES", enc_offset, deleted_nodes_to_encode)
            /\ enc_budgets' = Append(enc_budgets, <<"DELETED_NODES", deleted_nodes_to_encode>>)
    /\ UNCHANGED <<g_nodes, g_deleted_nodes, g_edges, g_deleted_edges,
                   g_relation_count, enc_dbiter, enc_r, enc_miter, enc_multi,
                   enc_edges, enc_nodes, enc_iters, dec_done, dec>>
    /\ UNCHANGED otherThanSnapshot

RdbSaveEdges_v14(edges_to_encode) ==
    /\ enc_state = "EDGES"
    /\ edges_to_encode \in ZeroBudget \cup Budgets("EDGES")
    /\ IF edges_to_encode = 0
       THEN ReturnedAtOnce("EDGES")
       ELSE /\ LET st == SaveEdgesBody(edges_to_encode)
               IN  /\ io' = io \o PayloadHeader("EDGES", edges_to_encode) \o st.out
                   /\ enc_miter' = IF DoneEncoding(enc_offset, edges_to_encode, Graph_EdgeCount)
                                   THEN DetachedTupleIter
                                   ELSE st.iter
                   /\ enc_r' = st.r
                   /\ enc_multi' = [array |-> st.array, index |-> st.index,
                                    src |-> st.src, dest |-> st.dest]
                   /\ enc_last' = WriterCall("EDGES", edges_to_encode, st.ids)
                   /\ enc_edges' = enc_edges \o st.saved
            /\ enc_zero' = 0
            /\ enc_state' = PhaseAfter("EDGES", enc_offset, edges_to_encode)
            /\ enc_offset' = OffsetAfter("EDGES", enc_offset, edges_to_encode)
            /\ enc_budgets' = Append(enc_budgets, <<"EDGES", edges_to_encode>>)
    /\ UNCHANGED <<g_nodes, g_deleted_nodes, g_edges, g_deleted_edges,
                   g_relation_count, enc_dbiter, enc_nodes, enc_iters, dec_done, dec>>
    /\ UNCHANGED otherThanSnapshot

RdbSaveDeletedEdges_v14(deleted_edges_to_encode) ==
    /\ enc_state = "DELETED_EDGES"
    /\ deleted_edges_to_encode \in ZeroBudget \cup Budgets("DELETED_EDGES")
    /\ IF deleted_edges_to_encode = 0
       THEN ReturnedAtOnce("DELETED_EDGES")
       ELSE /\ LET written == RdbSaveDeletedEntities_v14(g_deleted_edges, enc_offset,
                                                         deleted_edges_to_encode)
               IN  /\ io' = io \o PayloadHeader("DELETED_EDGES", deleted_edges_to_encode) \o written
                   /\ enc_last' = WriterCall("DELETED_EDGES", deleted_edges_to_encode, WrittenIds(written))
            /\ enc_zero' = 0
            /\ enc_state' = PhaseAfter("DELETED_EDGES", enc_offset, deleted_edges_to_encode)
            /\ enc_offset' = OffsetAfter("DELETED_EDGES", enc_offset, deleted_edges_to_encode)
            /\ enc_budgets' = Append(enc_budgets, <<"DELETED_EDGES", deleted_edges_to_encode>>)
    /\ UNCHANGED <<g_nodes, g_deleted_nodes, g_edges, g_deleted_edges,
                   g_relation_count, enc_dbiter, enc_r, enc_miter, enc_multi,
                   enc_edges, enc_nodes, enc_iters, dec_done, dec>>
    /\ UNCHANGED otherThanSnapshot

\* --- the version 14 decoder of the entity wire format ---
\* Node: id, label-count, label[*], attr-count, (attr-id, value)[*].
\* Edge: id, src-id, dest-id, relation-id, attr-count, (attr-id, value)[*].
\* Value: type-tag then variant body.

TokenAt(s, p) == IF p >= 1 /\ p <= Len(s) THEN s[p] ELSE <<"end", 0>>

TokenIs(s, p, kind) == TokenAt(s, p)[1] = kind

NullValue == <<T_NULL, <<>>>>

LoadFailed(p) == [ok |-> FALSE, pos |-> p, val |-> NullValue]

Loaded(p, v) == [ok |-> TRUE, pos |-> p, val |-> v]

\* the C string at the start of a buffer: the bytes before the first NUL
RECURSIVE CString(_)
CString(bytes) ==
    IF bytes = <<>> \/ Head(bytes) = 0 THEN <<>>
    ELSE <<Head(bytes)>> \o CString(Tail(bytes))

\* a buffer holds a string when it ends with the NUL
HoldsCString(bytes) == bytes # <<>> /\ bytes[Len(bytes)] = 0

RECURSIVE RdbLoadSIValue(_, _)
RECURSIVE RdbLoadSIValues(_, _, _, _)
RECURSIVE RdbLoadFloats(_, _, _, _)
RECURSIVE RdbLoadPairs(_, _, _, _)

\* count values from position p on, after the values of acc
RdbLoadSIValues(s, p, count, acc) ==
    IF count = 0 THEN Loaded(p, acc)
    ELSE LET v == RdbLoadSIValue(s, p)
         IN  IF ~v.ok THEN LoadFailed(p)
             ELSE RdbLoadSIValues(s, v.pos, count - 1, Append(acc, v.val))

RdbLoadFloats(s, p, count, acc) ==
    IF count = 0 THEN Loaded(p, acc)
    ELSE IF ~TokenIs(s, p, "float") THEN LoadFailed(p)
    ELSE RdbLoadFloats(s, p + 1, count - 1, Append(acc, s[p][2]))

RdbLoadPairs(s, p, count, acc) ==
    IF count = 0 THEN Loaded(p, acc)
    ELSE LET k == RdbLoadSIValue(s, p)
             v == RdbLoadSIValue(s, k.pos)
         IN  IF ~k.ok THEN LoadFailed(p)
             ELSE IF ~v.ok THEN LoadFailed(p)
             ELSE RdbLoadPairs(s, v.pos, count - 1, Append(acc, <<k.val, v.val>>))

\* a counted body: the count, then what load reads
RdbLoadCounted(s, p, tag, body) == IF body.ok THEN Loaded(body.pos, <<tag, body.val>>)
                                   ELSE LoadFailed(p)

RdbLoadSIValue(s, p) ==
    IF ~TokenIs(s, p, "unsigned") THEN LoadFailed(p)
    ELSE LET t == s[p][2]
         IN  IF t = T_BOOL \/ t = T_INT64
             THEN IF TokenIs(s, p + 1, "signed") THEN Loaded(p + 2, <<t, s[p + 1][2]>>)
                  ELSE LoadFailed(p)
             ELSE IF t = T_DOUBLE
             THEN IF TokenIs(s, p + 1, "double") THEN Loaded(p + 2, <<t, s[p + 1][2]>>)
                  ELSE LoadFailed(p)
             ELSE IF t = T_STRING
             THEN IF TokenIs(s, p + 1, "buffer") /\ HoldsCString(TokenAt(s, p + 1)[2])
                  THEN Loaded(p + 2, <<t, CString(s[p + 1][2])>>)
                  ELSE LoadFailed(p)
             ELSE IF t = T_POINT
             THEN IF TokenIs(s, p + 1, "double") /\ TokenIs(s, p + 2, "double")
                  THEN Loaded(p + 3, <<t, <<FloatOfDouble(s[p + 1][2]),
                                              FloatOfDouble(s[p + 2][2])>>>>)
                  ELSE LoadFailed(p)
             ELSE IF t = T_NULL THEN Loaded(p + 1, NullValue)
             ELSE IF ~TokenIs(s, p + 1, "unsigned") THEN LoadFailed(p)
             ELSE IF t = T_ARRAY
             THEN RdbLoadCounted(s, p, t, RdbLoadSIValues(s, p + 2, s[p + 1][2], <<>>))
             ELSE IF t = T_VECTOR_F32
             THEN RdbLoadCounted(s, p, t, RdbLoadFloats(s, p + 2, s[p + 1][2], <<>>))
             ELSE IF t = T_MAP
             THEN RdbLoadCounted(s, p, t, RdbLoadPairs(s, p + 2, s[p + 1][2], <<>>))
             ELSE LoadFailed(p)

\* count unsigned numbers from position p on
RECURSIVE RdbLoadUnsigneds(_, _, _, _)
RdbLoadUnsigneds(s, p, count, acc) ==
    IF count = 0 THEN Loaded(p, acc)
    ELSE IF ~TokenIs(s, p, "unsigned") THEN LoadFailed(p)
    ELSE RdbLoadUnsigneds(s, p + 1, count - 1, Append(acc, s[p][2]))

\* attr-count, (attr-id, value)[*], the count already read
RECURSIVE RdbLoadAttributes(_, _, _, _)
RdbLoadAttributes(s, p, count, acc) ==
    IF count = 0 THEN Loaded(p, acc)
    ELSE IF ~TokenIs(s, p, "unsigned") THEN LoadFailed(p)
    ELSE LET v == RdbLoadSIValue(s, p + 1)
         IN  IF ~v.ok THEN LoadFailed(p)
             ELSE RdbLoadAttributes(s, v.pos, count - 1, Append(acc, <<s[p][2], v.val>>))

RdbLoadEntity(s, p) ==
    IF ~TokenIs(s, p, "unsigned") THEN LoadFailed(p)
    ELSE RdbLoadAttributes(s, p + 1, s[p][2], <<>>)

\* the slot of a deleted entity, and the slots of the entities read
DeletedNodeSlot == [live |-> FALSE, labels |-> <<>>, attrs |-> <<>>]

DeletedEdgeSlot == [live |-> FALSE, src |-> 0, dest |-> 0, rel |-> 0, attrs |-> <<>>]

\* what the decoder builds: the two stores pre-allocated from the header,
\* the deleted-ID lists, the relation matrices (<<r, src, dest>> to the ids
\* stored there) and the multi-edge flag of every relation
Decoding(nodeSlots, edgeSlots, relations, flags, p) ==
    [ok |-> TRUE, pos |-> p,
     nodes |-> [i \in 1 .. nodeSlots |-> DeletedNodeSlot],
     deleted_nodes |-> <<>>,
     edges |-> [i \in 1 .. edgeSlots |-> DeletedEdgeSlot],
     deleted_edges |-> <<>>,
     relation_count |-> relations,
     multi_edge |-> flags,
     matrices |-> [x \in {} |-> <<>>]]

NotDecoded == [Decoding(0, 0, 0, <<>>, 0) EXCEPT !.ok = FALSE]

DecodeFailed(d) == [d EXCEPT !.ok = FALSE]

\* Serializer_Graph_SetNode
RdbLoadNode(d, s) ==
    LET head == RdbLoadUnsigneds(s, d.pos, 2, <<>>)
        labels == RdbLoadUnsigneds(s, head.pos, head.val[2], <<>>)
        attrs == RdbLoadEntity(s, labels.pos)
    IN  IF ~head.ok THEN DecodeFailed(d)
        ELSE IF ~labels.ok THEN DecodeFailed(d)
        ELSE IF ~attrs.ok THEN DecodeFailed(d)
        ELSE IF head.val[1] >= Len(d.nodes) THEN DecodeFailed(d)
        ELSE [d EXCEPT !.pos = attrs.pos,
                       !.nodes[head.val[1] + 1] =
                            [live |-> TRUE, labels |-> labels.val, attrs |-> attrs.val]]

\* Serializer_Graph_SetEdge: with the multi-edge flag the id joins the ids
\* of the slot, without it the id is stored as the slot's single edge
SetEdge(matrices, multi, key, edgeID) ==
    IF multi /\ key \in DOMAIN matrices
    THEN [matrices EXCEPT ![key] = Append(@, edgeID)]
    ELSE [k \in DOMAIN matrices \cup {key} |->
            IF k = key THEN <<edgeID>> ELSE matrices[k]]

RdbLoadEdge(d, s) ==
    LET head == RdbLoadUnsigneds(s, d.pos, 4, <<>>)
        attrs == RdbLoadEntity(s, head.pos)
    IN  IF ~head.ok THEN DecodeFailed(d)
        ELSE IF ~attrs.ok THEN DecodeFailed(d)
        ELSE IF head.val[1] >= Len(d.edges) \/ head.val[4] >= d.relation_count
        THEN DecodeFailed(d)
        ELSE [d EXCEPT !.pos = attrs.pos,
                       !.edges[head.val[1] + 1] =
                            [live |-> TRUE, src |-> head.val[2], dest |-> head.val[3],
                             rel |-> head.val[4], attrs |-> attrs.val],
                       !.matrices = SetEdge(@, d.multi_edge[head.val[4] + 1] = 1,
                                            <<head.val[4], head.val[2], head.val[3]>>,
                                            head.val[1])]

\* Serializer_Graph_MarkNodeDeleted / Serializer_Graph_MarkEdgeDeleted
RdbLoadDeletedNode(d, s) ==
    IF ~TokenIs(s, d.pos, "unsigned") THEN DecodeFailed(d)
    ELSE [d EXCEPT !.pos = @ + 1, !.deleted_nodes = Append(@, s[d.pos][2])]

RdbLoadDeletedEdge(d, s) ==
    IF ~TokenIs(s, d.pos, "unsigned") THEN DecodeFailed(d)
    ELSE [d EXCEPT !.pos = @ + 1, !.deleted_edges = Append(@, s[d.pos][2])]

\* one payload: count entities of one type
RECURSIVE RdbLoadEntities(_, _, _, _)
RdbLoadEntities(d, s, p, count) ==
    IF count = 0 \/ ~d.ok THEN d
    ELSE RdbLoadEntities(
             CASE p = "NODES" -> RdbLoadNode(d, s)
               [] p = "DELETED_NODES" -> RdbLoadDeletedNode(d, s)
               [] p = "EDGES" -> RdbLoadEdge(d, s)
               [] p = "DELETED_EDGES" -> RdbLoadDeletedEdge(d, s),
             s, p, count - 1)

\* the payloads up to the end of the stream
RECURSIVE RdbLoadPayloads(_, _)
RdbLoadPayloads(d, s) ==
    IF ~d.ok \/ d.pos > Len(s) THEN d
    ELSE LET head == RdbLoadUnsigneds(s, d.pos, 2, <<>>)
         IN  IF ~head.ok THEN DecodeFailed(d)
             ELSE IF head.val[1] \notin 1 .. Len(EncodePhases) THEN DecodeFailed(d)
             ELSE RdbLoadPayloads(
                      RdbLoadEntities([d EXCEPT !.pos = head.pos], s,
                                      EncodePhases[head.val[1]], head.val[2]),
                      s)

\* the header, then the payloads
RdbLoadGraphContext_v14(s) ==
    LET head == RdbLoadUnsigneds(s, 1, 5, <<>>)
        flags == RdbLoadUnsigneds(s, head.pos, head.val[5], <<>>)
    IN  IF ~head.ok THEN NotDecoded
        ELSE IF ~flags.ok THEN NotDecoded
        ELSE RdbLoadPayloads(
                 Decoding(head.val[1] + head.val[3], head.val[2] + head.val[4],
                          head.val[5], flags.val, flags.pos),
                 s)

RdbLoadGraph ==
    /\ enc_state = "DONE"
    /\ ~dec_done
    /\ dec' = RdbLoadGraphContext_v14(io)
    /\ dec_done' = TRUE
    /\ UNCHANGED <<g_nodes, g_deleted_nodes, g_edges, g_deleted_edges,
                   g_relation_count, enc_state, enc_offset, enc_dbiter, enc_r,
                   enc_miter, enc_multi, enc_budgets, enc_last, enc_zero, enc_edges,
                  enc_nodes, enc_iters, io>>
    /\ UNCHANGED otherThanSnapshot

\* --- the graphs a behaviour saves ---

\* the sequences of at most n elements of S
SeqsUpTo(S, n) == UNION {[1 .. k -> S] : k \in 0 .. n}

\* the orders in which the ids of S can have been deleted
DeletionOrders(S) ==
    {q \in [1 .. Cardinality(S) -> S] :
        \A i, j \in 1 .. Cardinality(S) : q[i] = q[j] => i = j}

DeletedIds(store) == {i - 1 : i \in {k \in 1 .. Len(store) : ~store[k].live}}

\* values of every variant, nested ones included
ProbeValues ==
    {<<T_BOOL, 1>>, <<T_BOOL, 0>>, <<T_INT64, -3>>, <<T_DOUBLE, 5>>,
     <<T_STRING, <<>>>>, <<T_STRING, <<104, 105>>>>,
     <<T_POINT, <<2, -4>>>>,
     <<T_VECTOR_F32, <<>>>>, <<T_VECTOR_F32, <<2, 6>>>>,
     NullValue,
     <<T_ARRAY, <<>>>>,
     <<T_ARRAY, <<<<T_INT64, 1>>, <<T_STRING, <<97>>>>, NullValue,
                  <<T_ARRAY, <<<<T_DOUBLE, 3>>>>>>>>>>,
     <<T_MAP, <<>>>>,
     <<T_MAP, <<<<<<T_STRING, <<107>>>>, <<T_INT64, 2>>>>,
                <<<<T_STRING, <<>>>>, <<T_MAP, <<<<<<T_STRING, <<120>>>>,
                                                   <<T_POINT, <<0, 2>>>>>>>>>>>>>>>>}

LiveNode(labels, attrs) == [live |-> TRUE, labels |-> labels, attrs |-> attrs]

LiveEdge(s, d, r, attrs) == [live |-> TRUE, src |-> s, dest |-> d, rel |-> r, attrs |-> attrs]

SnapshotGraph(ns, dn, es, de, rc) ==
    [nodes |-> ns, deleted_nodes |-> dn, edges |-> es, deleted_edges |-> de,
     relation_count |-> rc]

\* one labelled node and one edge on it, both carrying the value v
ValueGraphs ==
    {SnapshotGraph(<<LiveNode(<<0>>, <<<<0, v>>, <<1, <<T_INT64, 7>>>>>>)>>, <<>>,
                   <<LiveEdge(0, 0, 0, <<<<2, v>>>>)>>, <<>>, 1) : v \in ProbeValues}

\* node stores of at most MaxSnapNodes slots, deleted or carrying no, one
\* or two labels, with every deletion order
NodeSlots == {DeletedNodeSlot} \cup {LiveNode(l, <<>>) : l \in {<<>>, <<0>>, <<0, 1>>}}

NodeGraphs ==
    UNION {{SnapshotGraph(ns, dn, <<>>, <<>>, 1) : dn \in DeletionOrders(DeletedIds(ns))} :
            ns \in SeqsUpTo(NodeSlots, MaxSnapNodes)}

\* edge stores of at most MaxSnapEdges slots over MaxSnapNodes nodes and two
\* relations, parallel edges and deleted edges included; an edge is a loop
\* or leads to a node of a higher id
EdgeSlots ==
    {DeletedEdgeSlot} \cup
    {LiveEdge(e[1], e[2], r, <<>>) :
        e \in {x \in (0 .. (MaxSnapNodes - 1)) \X (0 .. (MaxSnapNodes - 1)) : x[1] <= x[2]},
        r \in {0, 1}}

EdgeGraphs ==
    UNION {{SnapshotGraph([i \in 1 .. MaxSnapNodes |-> LiveNode(<<>>, <<>>)], <<>>,
                          es, de, 2) : de \in DeletionOrders(DeletedIds(es))} :
            es \in SeqsUpTo(EdgeSlots, MaxSnapEdges)}

SnapshotGraphs == ValueGraphs \cup NodeGraphs \cup EdgeGraphs

\* graph G is to be saved: the encoding context is reset, nothing written
SnapshotStart(G) ==
    /\ g_nodes = G.nodes
    /\ g_deleted_nodes = G.deleted_nodes
    /\ g_edges = G.edges
    /\ g_deleted_edges = G.deleted_edges
    /\ g_relation_count = G.relation_count
    /\ enc_state = "HEADER"
    /\ enc_offset = 0
    /\ enc_dbiter = NoDataBlockIterator
    /\ enc_r = 0
    /\ enc_miter = DetachedTupleIter
    /\ enc_multi = NoMultipleEdges
    /\ enc_budgets = <<>>
    /\ enc_last = WriterCall("NONE", 0, <<>>)
    /\ enc_zero = 0
    /\ enc_edges = <<>>
    /\ enc_nodes = <<>>
    /\ enc_iters = [created |-> 0, freed |-> 0]
    /\ io = <<>>
    /\ dec_done = FALSE
    /\ dec = NotDecoded

NextSnapshot ==
    \/ RdbSaveHeader
    \/ \E n \in 1 .. MaxSnapNodes : RdbSaveNodes_v14(n)
    \/ \E n \in 1 .. MaxSnapNodes : RdbSaveDeletedNodes_v14(n)
    \/ \E n \in 1 .. MaxSnapEdges : RdbSaveEdges_v14(n)
    \/ \E n \in 1 .. MaxSnapEdges : RdbSaveDeletedEdges_v14(n)
    \/ RdbLoadGraph

\* ------------------------------------------------------------------------
\* Skip (op_skip.c), above a NodeByLabelScan without child
\* ------------------------------------------------------------------------

\* An expression is a constant or the parameter $n; NoExpression is NULL.
ConstantExpression(v) == [kind |-> "const", val |-> v]

ParameterExpression == [kind |-> "param", val |-> NullValue]

NoExpression == [kind |-> "none", val |-> NullValue]

AR_EXP_Clone(e) == e

\* AR_EXP_Evaluate: the value of the expression under the parameters prm
AR_EXP_Evaluate(e, prm) == IF e.kind = "param" THEN prm ELSE e.val

\* the expression AR_EXP_Evaluate leaves: "evaluating the expression will
\* modify it, replacing the parameter with a constant"
AR_EXP_Evaluated(e, prm) == ConstantExpression(AR_EXP_Evaluate(e, prm))

SI_TYPE(v) == v[1]

SI_GET_NUMERIC(v) == v[2]

\* the values a skip expression evaluates to
SkipValues ==
    {<<T_INT64, k>> : k \in -1 .. MaxSkip} \cup {<<T_DOUBLE, 1>>, <<T_STRING, <<>>>>}

\* "validate that the skip value is numeric and non-negative"
SkipValueInvalid_NegativeAllowed(s) == SI_TYPE(s) # T_INT64

SkipValueInvalid(s) == SI_TYPE(s) # T_INT64 \/ SI_GET_NUMERIC(s) < 0

\* op->skip = SI_GET_NUMERIC(s): the values the field can take
SkipField(s) ==
    IF SkipValueInvalid(s) THEN 0 .. MaxSkip ELSE {SI_GET_NUMERIC(s)}

\* "store a copy of the original expression": the copy is made before the
\* expression is evaluated
StoredExpression_AfterEvaluate(e, prm) == AR_EXP_Clone(AR_EXP_Evaluated(e, prm))

StoredExpression(e, prm) == AR_EXP_Clone(e)

\* OpBase_Consume(child): the consume function of the scan on its iterator
OpBase_Consume(cons, it0) ==
    IF cons = "NodeByLabelScanConsume"
          /\ ScanIterInfo(it0, lm_nodes, lm_nrows) = "GrB_SUCCESS"
    THEN [rec |-> <<0, ScanIterRow(it0, lm_nodes, lm_nrows)>>,
          iter |-> ScanIterAfter(it0, lm_nodes, lm_nrows)]
    ELSE [rec |-> NoRecord, iter |-> it0]

\* "as long as we're required to skip"
RequiredToSkip_OneMore(sk, n) == sk <= n

RequiredToSkip_Never(sk, n) == FALSE

RequiredToSkip(sk, n) == sk < n

\* the while loop of SkipConsume
RECURSIVE SkipLoop(_, _)
SkipLoop(st, n) ==
    IF RequiredToSkip(st.skipped, n)
    THEN LET discard == OpBase_Consume(consume, st.iter)
         IN  IF discard.rec = NoRecord
             THEN [st EXCEPT !.iter = discard.iter, !.depleted = TRUE]
             ELSE SkipLoop([st EXCEPT !.iter = discard.iter,
                                      !.deleted = Append(@, discard.rec),
                                      !.skipped = @ + 1], n)
    ELSE st

\* SkipConsume on an operator that skipped sk of n records, the child's
\* iterator at it0: the record returned and what the call leaves
SkipConsumeResult(sk, it0, n) ==
    LET l == SkipLoop([skipped |-> sk, iter |-> it0, deleted |-> <<>>,
                       depleted |-> FALSE], n)
        r == OpBase_Consume(consume, l.iter)
    IN  IF l.depleted
        THEN [rec |-> NoRecord, skipped |-> l.skipped, iter |-> l.iter,
              deleted |-> l.deleted]
        ELSE [rec |-> r.rec, skipped |-> l.skipped, iter |-> r.iter,
              deleted |-> l.deleted]

\* the records a consumption to exhaustion returns
RECURSIVE FullConsumption(_, _, _)
FullConsumption(sk, it0, n) ==
    LET r == SkipConsumeResult(sk, it0, n)
    IN  IF r.rec = NoRecord THEN <<>>
        ELSE <<r.rec>> \o FullConsumption(r.skipped, r.iter, n)

\* NewSkipOp(plan, skip_exp) with eval_skip
NewSkipOp(e) ==
    /\ sk_pc = "none"
    /\ sk_pc' = "built"
    /\ skipped' = 0
    /\ skip_exp' = StoredExpression(e, params)
    /\ sk_error' = SkipValueInvalid(AR_EXP_Evaluate(e, params))
    /\ skip' \in SkipField(AR_EXP_Evaluate(e, params))
    /\ exp_arg' = [given |-> e, left |-> AR_EXP_Evaluated(e, params)]
    /\ UNCHANGED <<params, cl_pc, cl_skip, cl_skipped, cl_skip_exp, cl_error,
                   sk_calls, sk_passes, sk_out, sk_last, sk_deleted, sk_initial>>
    /\ UNCHANGED <<scanVars, otherThanSkip>>

\* the parameters of the next execution are put in force
QueryCtx_SetParams(v) ==
    /\ sk_pc = "built"
    /\ ~sk_error
    /\ cl_pc = "none"
    /\ v # params
    /\ params' = v
    /\ UNCHANGED <<sk_pc, skip, skipped, skip_exp, sk_error, exp_arg, cl_pc,
                   cl_skip, cl_skipped, cl_skip_exp, cl_error, sk_calls,
                   sk_passes, sk_out, sk_last, sk_deleted, sk_initial>>
    /\ UNCHANGED <<scanVars, otherThanSkip>>

\* SkipClone: NewSkipOp on a clone of the stored expression
SkipClone ==
    /\ sk_pc = "built"
    /\ ~sk_error
    /\ cl_pc = "none"
    /\ cl_pc' = "built"
    /\ LET e == AR_EXP_Clone(skip_exp)
       IN  /\ cl_skipped' = 0
           /\ cl_skip_exp' = StoredExpression(e, params)
           /\ cl_error' = SkipValueInvalid(AR_EXP_Evaluate(e, params))
           /\ cl_skip' \in SkipField(AR_EXP_Evaluate(e, params))
    /\ UNCHANGED <<sk_pc, skip, skipped, skip_exp, sk_error, exp_arg, params,
                   sk_calls, sk_passes, sk_out, sk_last, sk_deleted, sk_initial>>
    /\ UNCHANGED <<scanVars, otherThanSkip>>

\* the plan may be pulled or reset
SkipCallable ==
    /\ sk_pc = "built"
    /\ ~sk_error
    /\ sc_pc = "ready"
    /\ sk_calls < MaxPlanCalls

\* history: the records a consumption to exhaustion of the plan returns,
\* taken when the first call is made on the initialised plan
InitialConsumption ==
    IF sk_calls = 0 THEN FullConsumption(skipped, iter, skip) ELSE sk_initial

\* SkipConsume
SkipConsume ==
    /\ SkipCallable
    /\ LET r == SkipConsumeResult(skipped, iter, skip)
       IN  /\ skipped' = r.skipped
           /\ iter' = r.iter
           /\ sk_last' = r.rec
           /\ sk_out' = IF r.rec = NoRecord THEN sk_out ELSE Append(sk_out, r.rec)
           /\ sk_deleted' = sk_deleted \o r.deleted
    /\ sk_calls' = sk_calls + 1
    /\ sk_initial' = InitialConsumption
    /\ UNCHANGED <<sk_pc, skip, skip_exp, sk_error, exp_arg, params, cl_pc,
                   cl_skip, cl_skipped, cl_skip_exp, cl_error, sk_passes>>
    /\ UNCHANGED <<sc_pc, childCount, label_id, schema_exists, id_range,
                   op_type, consume, child_record, child_len, child_next,
                   lm_nrows, lm_nodes, sc_calls, sc_last, sc_out, cfg_range,
                   sc_op, sc_deleted,
                   sc_dropped, sc_handed, sc_clone>>
    /\ UNCHANGED otherThanSkip

\* skip->skipped = 0
SkippedAfterReset_Kept(sk) == sk

SkippedAfterReset(sk) == 0

\* SkipReset, and NodeByLabelScanReset on its child: the plan resets its
\* operators together
SkipReset ==
    /\ SkipCallable
    /\ skipped' = SkippedAfterReset(skipped)
    /\ child_record' = 0
    /\ LET c == ResetIterator(id_range, iter, lm_nrows)
       IN  /\ id_range' = c.id_range
           /\ iter' = c.iter
    /\ sk_calls' = sk_calls + 1
    /\ sk_passes' = Append(sk_passes, Len(sk_out))
    /\ sk_last' = NoRecord
    /\ sk_out' = <<>>
    /\ sk_deleted' = <<>>
    /\ sk_initial' = InitialConsumption
    /\ UNCHANGED <<sk_pc, skip, skip_exp, sk_error, exp_arg, params, cl_pc,
                   cl_skip, cl_skipped, cl_skip_exp, cl_error>>
    /\ UNCHANGED <<sc_pc, childCount, label_id, schema_exists, op_type,
                   consume, child_len, child_next, lm_nrows, lm_nodes,
                   sc_calls, sc_last, sc_out, cfg_range, sc_op,
                   sc_deleted,
                   sc_dropped, sc_handed, sc_clone>>
    /\ UNCHANGED otherThanSkip

\* no Skip operator is built yet; the parameter $n is prm
SkipStart(prm) ==
    /\ sk_pc = "none"
    /\ skip = 0
    /\ skipped = 0
    /\ skip_exp = NoExpression
    /\ sk_error = FALSE
    /\ exp_arg = [given |-> NoExpression, left |-> NoExpression]
    /\ params = prm
    /\ cl_pc = "none"
    /\ cl_skip = 0
    /\ cl_skipped = 0
    /\ cl_skip_exp = NoExpression
    /\ cl_error = FALSE
    /\ sk_calls = 0
    /\ sk_passes = <<>>
    /\ sk_out = <<>>
    /\ sk_last = NoRecord
    /\ sk_deleted = <<>>
    /\ sk_initial = <<>>

NextSkip ==
    \/ \E e \in {ParameterExpression, ConstantExpression(<<T_INT64, 1>>)} : NewSkipOp(e)
    \/ \E v \in SkipValues : QueryCtx_SetParams(v)
    \/ SkipClone
    \/ NodeByLabelScanInit
    \/ SkipConsume
    \/ SkipReset

\* ------------------------------------------------------------------------
\* The LoadCSV operator (op_load_csv)
\* ------------------------------------------------------------------------

\* names a path can have; a file that is not in DOMAIN csv_files cannot be
\* opened
CsvFileNames == {"a", "b"}

SI_NullVal == <<T_NULL, <<>>>>

\* values a path expression evaluates to
CsvPathValues == {<<T_STRING, f>> : f \in CsvFileNames} \cup {<<T_INT64, 1>>}

\* op->path.stringval: the string of a string value; for a value of another
\* type the member of the union read is not the one written, and names no file
StringVal(v) == IF SI_TYPE(v) = T_STRING THEN v[2] ELSE "?"

NoReader == <<>>

NoCallback == "NULL"

\* CSVReader_New: a reader at the first row, NULL when the file cannot be
\* opened
CSVReader_New(path, files) ==
    IF path \in DOMAIN files THEN <<path, 0>> ELSE NoReader

\* CSVReader_GetRow has a row to return
CSVReader_HasRow(rd, files) == rd[2] < files[rd[1]]

\* the row CSVReader_GetRow returns, and the reader after it
CSVReader_Row(rd) == <<rd[1], rd[2] + 1>>

CSVReader_Advanced(rd) == <<rd[1], rd[2] + 1>>

\* AR_EXP_Evaluate(op->exp, r): r is the record at position k of the child
\* (0: an empty record)
CsvPathOf(k) == IF k = 0 THEN csv_exp ELSE csv_child[k]

\* _compute_path: the path is a string
ComputePathOk_Any(v) == TRUE

ComputePathOk(v) == SI_TYPE(v) = T_STRING

\* the operator's fields
CsvOp ==
    [pc |-> csv_pc, consume |-> csv_consume, path |-> csv_path,
     reader |-> csv_reader, child_record |-> csv_child_record,
     child_pos |-> csv_child_pos, exceptions |-> csv_exceptions,
     opened |-> csv_opened]

\* ErrorCtx_RaiseRuntimeException: the exception unwinds the query, or,
\* with no handler set, the call returns
ErrorCtx_RaiseRuntimeException(st, emsg) ==
    {[st EXCEPT !.exceptions = Append(@, emsg), !.pc = after] :
        after \in {"unwound", st.pc}}

\* OpBase_UpdateConsume, when the raise returned
UpdateConsumeDepleted(st) ==
    IF st.pc = "unwound" THEN st
    ELSE [st EXCEPT !.consume = "LoadCSVConsumeDepleted"]

\* _Init_CSVReader: the operator with its new reader, and after the
\* exception when the reader is NULL
Init_CSVReader(st, files) ==
    LET opened == [st EXCEPT !.reader = CSVReader_New(StringVal(st.path), files),
                             !.opened = @ \cup {st.path}]
    IN  IF opened.reader = NoReader
        THEN ErrorCtx_RaiseRuntimeException(opened, "EMSG_FAILED_TO_LOAD_CSV")
        ELSE {opened}

\* LoadCSVInit without child
LoadCSVInitTap(st, files) ==
    LET evaluated == [st EXCEPT !.path = CsvPathOf(0), !.pc = "ready"]
        computed ==
            IF ComputePathOk(evaluated.path)
            THEN {evaluated}
            ELSE {UpdateConsumeDepleted(r) :
                    r \in ErrorCtx_RaiseRuntimeException(evaluated, "EMSG_INVALID_CSV_PATH")}
    IN  UNION {IF r.pc = "unwound"
               THEN {r}
               ELSE {IF q.reader = NoReader THEN UpdateConsumeDepleted(q) ELSE q :
                        q \in Init_CSVReader(r, files)} : r \in computed}

\* the record returned for a row: a clone of the child's record (named by
\* its position) with the row added
RowRecord_Fresh(cr, row) == <<0, row>>

RowRecord(cr, row) == <<cr, row>>

\* LoadCSVConsumeFromChild: the operator after the call and the record
\* returned
RECURSIVE PullFromChild(_, _, _)
RECURSIVE GetRowFromChild(_, _, _)
PullFromChild(st, child, files) ==
    IF st.child_record # 0
    THEN GetRowFromChild(st, child, files)
    ELSE IF st.child_pos >= Len(child)
         THEN {[op |-> st, rec |-> NoRecord]}
         ELSE LET pulled == [st EXCEPT !.child_pos = @ + 1,
                                       !.child_record = st.child_pos + 1,
                                       !.path = child[st.child_pos + 1]]
              IN  IF ~ComputePathOk(pulled.path)
                  THEN {[op |-> r, rec |-> NoRecord] :
                          r \in ErrorCtx_RaiseRuntimeException(pulled, "EMSG_INVALID_CSV_PATH")}
                  ELSE UNION {IF r.reader = NoReader
                              THEN {[op |-> r, rec |-> NoRecord]}
                              ELSE GetRowFromChild(r, child, files) :
                                 r \in Init_CSVReader(pulled, files)}

GetRowFromChild(st, child, files) ==
    IF st.reader = NoReader
    THEN \* ASSERT(op->reader != NULL) fails; CSVReader_GetRow(NULL)
         {[op |-> [st EXCEPT !.pc = "crashed"], rec |-> NoRecord]}
    ELSE IF CSVReader_HasRow(st.reader, files)
         THEN {[op |-> [st EXCEPT !.reader = CSVReader_Advanced(@)],
                rec |-> RowRecord(st.child_record, CSVReader_Row(st.reader))]}
         ELSE PullFromChild([st EXCEPT !.child_record = 0, !.path = SI_NullVal],
                            child, files)

\* LoadCSVConsume: the operator after the call and the record returned
ConsumeTap(st, files) ==
    IF st.reader = NoReader
    THEN [op |-> [st EXCEPT !.pc = "crashed"], rec |-> NoRecord]
    ELSE IF CSVReader_HasRow(st.reader, files)
         THEN [op |-> [st EXCEPT !.reader = CSVReader_Advanced(@)],
               rec |-> <<0, CSVReader_Row(st.reader)>>]
         ELSE [op |-> st, rec |-> NoRecord]

\* LoadCSVReset
LoadCSVReset(st) ==
    [st EXCEPT !.path = SI_NullVal, !.child_record = 0, !.reader = NoReader]

\* the reset function NewLoadCSVOp passes to OpBase_Init
RegisteredReset == NoCallback

\* the operator's fields are written back
CsvStore(st) ==
    /\ csv_pc' = st.pc
    /\ csv_consume' = st.consume
    /\ csv_path' = st.path
    /\ csv_reader' = st.reader
    /\ csv_child_record' = st.child_record
    /\ csv_child_pos' = st.child_pos
    /\ csv_exceptions' = st.exceptions
    /\ csv_opened' = st.opened

CsvReturned(r) ==
    /\ csv_calls' = csv_calls + 1
    /\ csv_pass_calls' = csv_pass_calls + 1
    /\ csv_last' = r
    /\ csv_out' = IF r = NoRecord THEN csv_out ELSE Append(csv_out, r)
    /\ UNCHANGED <<csv_has_child, csv_exp, csv_child, csv_files, csv_reset, csv_resets>>

NewLoadCSVOp ==
    /\ csv_pc = "none"
    /\ csv_pc' = "new"
    /\ csv_path' = SI_NullVal
    /\ csv_reader' = NoReader
    /\ csv_child_record' = 0
    /\ csv_consume' = "LoadCSVConsume"
    /\ csv_reset' = RegisteredReset
    /\ UNCHANGED <<csv_has_child, csv_exp, csv_child, csv_files, csv_child_pos,
                   csv_exceptions, csv_opened, csv_calls, csv_pass_calls, csv_resets,
             csv_out, csv_last>>
    /\ UNCHANGED otherThanCsv

LoadCSVInit ==
    /\ csv_pc = "new"
    /\ IF csv_has_child
       THEN CsvStore([CsvOp EXCEPT !.consume = "LoadCSVConsumeFromChild", !.pc = "ready"])
       ELSE \E r \in LoadCSVInitTap(CsvOp, csv_files) : CsvStore(r)
    /\ UNCHANGED <<csv_has_child, csv_exp, csv_child, csv_files, csv_reset,
                   csv_calls, csv_pass_calls, csv_resets, csv_out, csv_last>>
    /\ UNCHANGED otherThanCsv

CsvCallable == csv_pc = "ready" /\ csv_calls < MaxCsvCalls

LoadCSVConsume ==
    /\ CsvCallable
    /\ csv_consume = "LoadCSVConsume"
    /\ LET r == ConsumeTap(CsvOp, csv_files)
       IN  CsvStore(r.op) /\ CsvReturned(r.rec)
    /\ UNCHANGED otherThanCsv

LoadCSVConsumeFromChild ==
    /\ CsvCallable
    /\ csv_consume = "LoadCSVConsumeFromChild"
    /\ \E r \in PullFromChild(CsvOp, csv_child, csv_files) :
          CsvStore(r.op) /\ CsvReturned(r.rec)
    /\ UNCHANGED otherThanCsv

LoadCSVConsumeDepleted ==
    /\ CsvCallable
    /\ csv_consume = "LoadCSVConsumeDepleted"
    /\ CsvStore(CsvOp)
    /\ CsvReturned(NoRecord)
    /\ UNCHANGED otherThanCsv

\* OpBase_PropagateReset: the registered reset function of the operator is
\* called, if there is one, and the child is reset
OpBase_PropagateReset ==
    /\ CsvCallable
    /\ LET st == IF csv_reset = NoCallback THEN CsvOp ELSE LoadCSVReset(CsvOp)
       IN  CsvStore([st EXCEPT !.child_pos = 0])
    /\ csv_calls' = csv_calls + 1
    /\ csv_resets' = csv_resets + 1
    /\ csv_pass_calls' = 0
    /\ csv_out' = <<>>
    /\ csv_last' = NoRecord
    /\ UNCHANGED <<csv_has_child, csv_exp, csv_child, csv_files, csv_reset>>
    /\ UNCHANGED otherThanCsv

\* before NewLoadCSVOp
CsvStart(hc, e, ch, files) ==
    /\ csv_pc = "none"
    /\ csv_has_child = hc
    /\ csv_exp = e
    /\ csv_child = ch
    /\ csv_files = files
    /\ csv_consume = NoCallback
    /\ csv_reset = NoCallback
    /\ csv_path = SI_NullVal
    /\ csv_reader = NoReader
    /\ csv_child_record = 0
    /\ csv_child_pos = 0
    /\ csv_exceptions = <<>>
    /\ csv_opened = {}
    /\ csv_calls = 0
    /\ csv_pass_calls = 0
    /\ csv_resets = 0
    /\ csv_out = <<>>
    /\ csv_last = NoRecord

NextCsv ==
    \/ NewLoadCSVOp
    \/ LoadCSVInit
    \/ LoadCSVConsume
    \/ LoadCSVConsumeFromChild
    \/ LoadCSVConsumeDepleted
    \/ OpBase_PropagateReset

\* ------------------------------------------------------------------------
\* All-neighbors traversal (AllNeighborsCtx)
\* ------------------------------------------------------------------------

\* the nodes of the graphs a traversal walks: a, b and c
TraverseNodes == {0, 1, 2}

INVALID_ENTITY_ID == UINT64_MAX

\* the row of a node in the adjacency matrix: its neighbors, in column order
CollectNeighbors(M, n) == AscSeq({x[2] : x \in {y \in M : y[1] = n}})

\* the node is on the current path
Visited(path, n) == \E i \in 1 .. Len(path) : path[i] = n

\* the traversal may go on from a destination reached at the given level
MayExpand_Revisit(path, level, maxLen, n) == level < maxLen

MayExpand(path, level, maxLen, n) == level < maxLen /\ ~Visited(path, n)

\* the context after dest was taken from the iterator of the deepest level
Expanded(st, M, dest) ==
    [st EXCEPT !.visited = Append(@, dest),
               !.levels = Append(@, CollectNeighbors(M, dest))]

\* the loop of AllNeighborsCtx_NextNeighbor: the context after the call and
\* the destination returned
RECURSIVE NextNeighborLoop(_, _, _, _)
NextNeighborLoop(st, M, minLen, maxLen) ==
    LET level == Len(st.levels)
    IN  IF level = 0
        THEN [ctx |-> st, dest |-> INVALID_ENTITY_ID]
        ELSE IF st.levels[level] = <<>>
             THEN \* the iterator of the level is depleted: backtrack
                  NextNeighborLoop([st EXCEPT !.levels = SubSeq(@, 1, level - 1),
                                              !.visited = SubSeq(@, 1, level - 1)],
                                   M, minLen, maxLen)
             ELSE LET dest == Head(st.levels[level])
                      taken == [st EXCEPT !.levels[level] = Tail(@)]
                      after == IF MayExpand(taken.visited, level, maxLen, dest)
                               THEN Expanded(taken, M, dest)
                               ELSE taken
                  IN  IF level < minLen
                      THEN NextNeighborLoop(after, M, minLen, maxLen)
                      ELSE [ctx |-> after, dest |-> dest]

\* AllNeighborsCtx_NextNeighbor: the first call enters the source
NextNeighbor(st, first, src, M, minLen, maxLen) ==
    IF first
    THEN LET entered == [visited |-> <<src>>, levels |-> <<CollectNeighbors(M, src)>>]
         IN  IF minLen = 0
             THEN [ctx |-> IF maxLen = 0 THEN [visited |-> <<>>, levels |-> <<>>] ELSE entered,
                   dest |-> src]
             ELSE NextNeighborLoop(entered, M, minLen, maxLen)
    ELSE NextNeighborLoop(st, M, minLen, maxLen)

AllNeighborsCtx_New ==
    /\ an_pc = "none"
    /\ an_pc' = "ready"
    /\ an_first_pull' = TRUE
    /\ an_visited' = <<>>
    /\ an_levels' = <<>>
    /\ UNCHANGED <<an_M, an_src, an_minLen, an_maxLen, an_calls, an_out, an_last>>
    /\ UNCHANGED otherThanTraverse

AllNeighborsCtx_NextNeighbor ==
    /\ an_pc = "ready"
    /\ an_last # INVALID_ENTITY_ID
    /\ LET r == NextNeighbor([visited |-> an_visited, levels |-> an_levels],
                             an_first_pull, an_src, an_M, an_minLen, an_maxLen)
       IN  /\ an_visited' = r.ctx.visited
           /\ an_levels' = r.ctx.levels
           /\ an_last' = r.dest
           /\ an_out' = IF r.dest = INVALID_ENTITY_ID THEN an_out ELSE Append(an_out, r.dest)
    /\ an_first_pull' = FALSE
    /\ an_calls' = an_calls + 1
    /\ UNCHANGED <<an_pc, an_M, an_src, an_minLen, an_maxLen>>
    /\ UNCHANGED otherThanTraverse

\* before AllNeighborsCtx_New
TraverseStart(M, minLen, maxLen) ==
    /\ an_pc = "none"
    /\ an_M = M
    /\ an_src = 0
    /\ an_minLen = minLen
    /\ an_maxLen = maxLen
    /\ an_first_pull = TRUE
    /\ an_visited = <<>>
    /\ an_levels = <<>>
    /\ an_calls = 0
    /\ an_out = <<>>
    /\ an_last = 0

NextTraverse ==
    \/ AllNeighborsCtx_New
    \/ AllNeighborsCtx_NextNeighbor

\* ------------------------------------------------------------------------
\* The v13 graph decoder (decode_graph.c)
\* ------------------------------------------------------------------------

DecodeSchemas == {"label", "relation"}

\* the payloads a virtual key can hold
KeySchemas ==
    {<<"ENCODE_STATE_GRAPH_SCHEMA">>,
     <<"ENCODE_STATE_NODES">>,
     <<"ENCODE_STATE_DELETED_NODES", "ENCODE_STATE_EDGES">>,
     <<"ENCODE_STATE_DELETED_EDGES">>}

\* _GetOrCreateGraphContext: the policy of a graph context created for the
\* decode
PolicyOfNewContext_Default == "SYNC_POLICY_FLUSH_RESIZE"

PolicyOfNewContext == "SYNC_POLICY_RESIZE"

\* _GetOrCreateGraphContext: the policy after the call
GetOrCreateGraphContext(exists, policy) ==
    IF exists THEN policy ELSE PolicyOfNewContext

\* RdbLoadGraphContext_v13, the switch on payload.state: the policy after
\* the payload
PolicyAfterPayload(state, policy) ==
    IF state \in {"ENCODE_STATE_NODES", "ENCODE_STATE_EDGES"}
    THEN "SYNC_POLICY_NOP"
    ELSE policy

\* GraphDecodeContext_Finished
GraphDecodeContext_Finished_Early(processed, keyCount) == processed >= 1

GraphDecodeContext_Finished(processed, keyCount) == processed = keyCount

\* RdbLoadGraphSchema_v13: the indices of the schemas are created pending;
\* on a key that is not the first the schemas are already loaded
RdbLoadGraphSchema_v13(idx, withIndex, already_loaded) ==
    IF already_loaded THEN idx
    ELSE [s \in DecodeSchemas |-> IF s \in withIndex THEN "pending" ELSE "none"]

\* the finalization: every pending index is enabled
EnablePending(idx) ==
    [s \in DecodeSchemas |-> IF idx[s] = "pending" THEN "active" ELSE idx[s]]

\* a header that takes every key for the first one
first_vkey_Always(processed) == TRUE

\* _DecodeHeader: "if it is the first key of this graph"
first_vkey(processed) == processed = 0

\* _DecodeHeader and _RdbLoadKeySchema for a virtual key that has not
\* arrived yet; the branch of the first key calls _InitGraphDataStructure,
\* records the multi-edge flags and sets the key count
DecodeHeader(k) ==
    /\ gd_pc = "idle"
    /\ k \in 1 .. Len(gd_keys)
    /\ \A i \in 1 .. Len(gd_order) : gd_order[i] # k
    /\ gd_pc' = "payloads"
    /\ gd_key' = k
    /\ gd_payload' = 0
    /\ gd_order' = Append(gd_order, k)
    /\ gd_gc' = TRUE
    /\ gd_policy' = GetOrCreateGraphContext(gd_gc, gd_policy)
    /\ gd_allocated' = IF first_vkey(gd_processed) THEN gd_allocated + 1 ELSE gd_allocated
    /\ gd_key_count' = IF first_vkey(gd_processed) THEN Len(gd_keys) ELSE gd_key_count
    /\ gd_index' = RdbLoadGraphSchema_v13(gd_index, gd_indexed, ~first_vkey(gd_processed))
    /\ gd_pending' = IF first_vkey(gd_processed) THEN FALSE ELSE gd_pending
    /\ UNCHANGED <<gd_keys, gd_indexed, gd_processed, gd_entities, gd_finalized,
                   gd_final_at, gd_final_ops, gd_node_labels, gd_final_log>>
    /\ UNCHANGED otherThanDecode

\* RdbLoadNodes_v13 and RdbLoadEdges_v13 write the entities of the payload
\* to the matrices of the graph, which under SYNC_POLICY_NOP are not flushed
PendingAfterPayload(state, pending) ==
    pending \/ state \in {"ENCODE_STATE_NODES", "ENCODE_STATE_EDGES"}

\* one payload of the key is decoded
DecodePayload ==
    /\ gd_pc = "payloads"
    /\ gd_payload < Len(gd_keys[gd_key])
    /\ LET state == gd_keys[gd_key][gd_payload + 1]
       IN  /\ gd_policy' = PolicyAfterPayload(state, gd_policy)
           /\ gd_entities' = (gd_entities \/ state \in {"ENCODE_STATE_NODES", "ENCODE_STATE_EDGES"})
           /\ gd_pending' = PendingAfterPayload(state, gd_pending)
    /\ gd_payload' = gd_payload + 1
    /\ UNCHANGED <<gd_keys, gd_indexed, gd_pc, gd_key, gd_order, gd_gc, gd_processed,
                   gd_key_count, gd_allocated, gd_index, gd_finalized, gd_final_at,
                   gd_final_ops, gd_node_labels, gd_final_log>>
    /\ UNCHANGED otherThanDecode

\* --- the finalization of RdbLoadGraphContext_v13 ---
\* st: the node-label matrix, the pending changes and the policy of the
\* graph, the indices of the schemas, the decoding context, and the log of
\* the calls made so far, each with the state it is made in

Called(st, op) ==
    [st EXCEPT !.log = Append(@, [op |-> op,
                                  node_labels |-> st.node_labels,
                                  pending |-> st.pending,
                                  policy |-> st.policy,
                                  index |-> st.index,
                                  processed |-> st.processed])]

\* "set the node label matrix": the matrix is written
Serializer_Graph_SetNodeLabels(st) ==
    [Called(st, "Serializer_Graph_SetNodeLabels") EXCEPT !.node_labels = TRUE,
                                                         !.pending = TRUE]

\* "flush graph matrices"
Graph_ApplyAllPending(st) ==
    [Called(st, "Graph_ApplyAllPending") EXCEPT !.pending = FALSE]

\* "revert to default synchronization behavior"
Graph_SetMatrixPolicy(st, policy) ==
    [Called(st, "Graph_SetMatrixPolicy") EXCEPT !.policy = policy]

\* "enable node indices", "enable all edge indices"
EnableIndices(st) ==
    [Called(st, "Index_Enable") EXCEPT !.index = EnablePending(@)]

\* ASSERT(Graph_Pending(g) == false)
Graph_Pending(st) == Called(st, "Graph_Pending")

GraphDecodeContext_Reset(st) ==
    [Called(st, "GraphDecodeContext_Reset") EXCEPT !.processed = 0, !.key_count = 0]

\* a finalization that flushes the matrices before the node-label matrix
\* is set
Finalized_FlushFirst(st) ==
    GraphDecodeContext_Reset(
        Graph_Pending(
            EnableIndices(
                Graph_SetMatrixPolicy(
                    Serializer_Graph_SetNodeLabels(Graph_ApplyAllPending(st)),
                    "SYNC_POLICY_FLUSH_RESIZE"))))

\* the body of "if(GraphDecodeContext_Finished(gc->decoding_context))"
Finalized(st) ==
    GraphDecodeContext_Reset(
        Graph_Pending(
            EnableIndices(
                Graph_SetMatrixPolicy(
                    Graph_ApplyAllPending(Serializer_Graph_SetNodeLabels(st)),
                    "SYNC_POLICY_FLUSH_RESIZE"))))

\* the end of RdbLoadGraphContext_v13: the key is counted and, when the
\* decoding context is finished, the decode is finalized
DecodeKeyEnd ==
    /\ gd_pc = "payloads"
    /\ gd_payload = Len(gd_keys[gd_key])
    /\ gd_pc' = "idle"
    /\ gd_key' = 0
    /\ IF GraphDecodeContext_Finished(gd_processed + 1, gd_key_count)
       THEN /\ LET st == Finalized([node_labels |-> gd_node_labels,
                                     pending |-> gd_pending,
                                     policy |-> gd_policy,
                                     index |-> gd_index,
                                     processed |-> gd_processed + 1,
                                     key_count |-> gd_key_count,
                                     log |-> <<>>])
               IN  /\ gd_policy' = st.policy
                   /\ gd_index' = st.index
                   /\ gd_processed' = st.processed
                   /\ gd_key_count' = st.key_count
                   /\ gd_pending' = st.pending
                   /\ gd_node_labels' = st.node_labels
                   /\ gd_final_log' = st.log
            /\ gd_finalized' = gd_finalized + 1
            /\ gd_final_at' = Len(gd_order)
            /\ gd_final_ops' = <<"Serializer_Graph_SetNodeLabels", "Graph_ApplyAllPending",
                                 "Graph_SetMatrixPolicy", "Index_Enable",
                                 "GraphDecodeContext_Reset">>
       ELSE /\ gd_processed' = gd_processed + 1
            /\ UNCHANGED <<gd_policy, gd_index, gd_key_count, gd_finalized, gd_final_at,
                           gd_final_ops, gd_pending, gd_node_labels, gd_final_log>>
    /\ UNCHANGED <<gd_keys, gd_indexed, gd_payload, gd_order, gd_gc, gd_allocated,
                   gd_entities>>
    /\ UNCHANGED otherThanDecode

\* before the first virtual key of the graph arrives
DecodeStart(keys, withIndex) ==
    /\ gd_keys = keys
    /\ gd_indexed = withIndex
    /\ gd_pc = "idle"
    /\ gd_key = 0
    /\ gd_payload = 0
    /\ gd_order = <<>>
    /\ gd_gc = FALSE
    /\ gd_policy = "SYNC_POLICY_FLUSH_RESIZE"
    /\ gd_processed = 0
    /\ gd_key_count = 0
    /\ gd_allocated = 0
    /\ gd_entities = FALSE
    /\ gd_index = [s \in DecodeSchemas |-> "none"]
    /\ gd_finalized = 0
    /\ gd_final_at = 0
    /\ gd_final_ops = <<>>
    /\ gd_pending = FALSE
    /\ gd_node_labels = FALSE
    /\ gd_final_log = <<>>

NextDecode ==
    \/ \E k \in 1 .. MaxVKeys : DecodeHeader(k)
    \/ DecodePayload
    \/ DecodeKeyEnd

\* ------------------------------------------------------------------------
\* Specifications
\* ------------------------------------------------------------------------

\* the subsystems a specification is not about stay as they start
NoGraph == SnapshotGraph(<<>>, <<>>, <<>>, <<>>, 1)

IdleScan == ScanStart(0, KnownLabel, TRUE, 0, {}, 0)

IdleSkip == SkipStart(<<T_INT64, 0>>)

IdleCsv == CsvStart(FALSE, SI_NullVal, <<>>, <<>>)

IdleTraverse == TraverseStart({}, 0, 0)

IdleDecode == DecodeStart(<<>>, {})

\* index population over a graph of nodes and edges
InitIndex ==
    /\ \E et \in {"NODE", "EDGE"}, bs \in 1 .. MaxBatch : IndexStart(et, bs)
    /\ MatrixStart(1)
    /\ IdleScan
    /\ SnapshotStart(NoGraph)
    /\ IdleSkip
    /\ IdleCsv
    /\ IdleTraverse
    /\ IdleDecode

SpecIndex == InitIndex /\ [][NextIndex]_vars

\* a step of the thread that runs Index_Populate
PopulatorStep ==
    \/ PopulateNode_Check
    \/ PopulateNode_Acquire
    \/ PopulateNode_Batch
    \/ PopulateNode_Release
    \/ PopulateEdge_Check
    \/ PopulateEdge_Acquire
    \/ PopulateEdge_Skip
    \/ PopulateEdge_Index
    \/ PopulateEdge_Advance
    \/ PopulateEdge_Release
    \/ Index_Populate_Enable

\* the populator thread keeps running and the read lock is granted to it
\* after finitely many write queries; the write queries and Index_Drop may or
\* may not happen
SpecIndexFair == InitIndex /\ [][NextIndex]_vars /\ WF_vars(PopulatorStep)

\* operations and iterator passes on one delta-matrix
InitMatrix ==
    /\ \E n \in 1 .. MaxDim : MatrixStart(n)
    /\ IndexStart("NODE", 1)
    /\ IdleScan
    /\ SnapshotStart(NoGraph)
    /\ IdleSkip
    /\ IdleCsv
    /\ IdleTraverse
    /\ IdleDecode

SpecMatrix == InitMatrix /\ [][NextMatrix]_vars

\* one NodeByLabelScan, from its construction on
InitScan ==
    /\ \E cc \in {0, 1}, lid \in {GRAPH_UNKNOWN_LABEL, KnownLabel},
          schema \in BOOLEAN, nrows \in 0 .. MaxRows, clen \in 0 .. MaxChild :
            /\ lid = KnownLabel => schema
            /\ cc = 0 => clen = 0
            /\ \E lnodes \in SUBSET (0 .. (nrows - 1)) :
                    ScanStart(cc, lid, schema, nrows, lnodes, clen)
    /\ IndexStart("NODE", 1)
    /\ MatrixStart(1)
    /\ SnapshotStart(NoGraph)
    /\ IdleSkip
    /\ IdleCsv
    /\ IdleTraverse
    /\ IdleDecode

SpecScan == InitScan /\ [][NextScan]_vars

\* one graph is saved, payload by payload, and the stream is decoded
InitSnapshot ==
    /\ IndexStart("NODE", 1)
    /\ MatrixStart(1)
    /\ IdleScan
    /\ IdleSkip
    /\ IdleCsv
    /\ IdleTraverse
    /\ IdleDecode
    /\ \E G \in SnapshotGraphs : SnapshotStart(G)

SpecSnapshot == InitSnapshot /\ [][NextSnapshot]_vars

\* the payload writers are called with any budget up to what remains, 0
\* included
NextEncode ==
    \/ RdbSaveHeader
    \/ \E n \in 0 .. MaxSnapNodes : RdbSaveNodes_v14(n)
    \/ \E n \in 0 .. MaxSnapNodes : RdbSaveDeletedNodes_v14(n)
    \/ \E n \in 0 .. MaxSnapEdges : RdbSaveEdges_v14(n)
    \/ \E n \in 0 .. MaxSnapEdges : RdbSaveDeletedEdges_v14(n)

SpecEncode == InitSnapshot /\ [][NextEncode]_vars

\* a plan Skip over NodeByLabelScan is built, initialised, pulled and reset
InitSkip ==
    /\ IndexStart("NODE", 1)
    /\ MatrixStart(1)
    /\ SnapshotStart(NoGraph)
    /\ \E nrows \in 0 .. MaxRows :
          \E lnodes \in SUBSET (0 .. (nrows - 1)) :
              ScanStart(0, KnownLabel, TRUE, nrows, lnodes, 0)
    /\ IdleCsv
    /\ IdleTraverse
    /\ IdleDecode
    /\ \E prm \in SkipValues : SkipStart(prm)

SpecSkip == InitSkip /\ [][NextSkip]_vars

\* the files a LoadCSV can be asked to read
CsvFileSets == UNION {[D -> 0 .. MaxCsvRows] : D \in SUBSET CsvFileNames}

\* one LoadCSV, with or without child, from its construction on
InitCsv ==
    /\ IdleTraverse
    /\ IdleDecode
    /\ IndexStart("NODE", 1)
    /\ MatrixStart(1)
    /\ SnapshotStart(NoGraph)
    /\ IdleScan
    /\ IdleSkip
    /\ \E hc \in BOOLEAN, files \in CsvFileSets :
          IF hc
          THEN \E ch \in SeqsUpTo(CsvPathValues, MaxCsvChild) :
                    CsvStart(TRUE, SI_NullVal, ch, files)
          ELSE \E e \in CsvPathValues : CsvStart(FALSE, e, <<>>, files)

SpecCsv == InitCsv /\ [][NextCsv]_vars

\* the adjacency matrices a traversal walks
TraverseGraphs ==
    {M \in SUBSET (TraverseNodes \X TraverseNodes) : Cardinality(M) <= MaxTravEdges}

\* one traversal from node a, from the construction of its context on
InitTraverse ==
    /\ IdleDecode
    /\ IndexStart("NODE", 1)
    /\ MatrixStart(1)
    /\ SnapshotStart(NoGraph)
    /\ IdleScan
    /\ IdleSkip
    /\ IdleCsv
    /\ \E maxLen \in 0 .. MaxTravLen, minLen \in 0 .. MaxTravLen, M \in TraverseGraphs :
          /\ minLen <= maxLen
          /\ TraverseStart(M, minLen, maxLen)

SpecTraverse == InitTraverse /\ [][NextTraverse]_vars

\* the virtual keys of one graph arrive in any order
InitDecode ==
    /\ IndexStart("NODE", 1)
    /\ MatrixStart(1)
    /\ SnapshotStart(NoGraph)
    /\ IdleScan
    /\ IdleSkip
    /\ IdleCsv
    /\ IdleTraverse
    /\ \E n \in 1 .. MaxVKeys, withIndex \in SUBSET DecodeSchemas :
          \E keys \in [1 .. n -> KeySchemas] : DecodeStart(keys, withIndex)

SpecDecode == InitDecode /\ [][NextDecode]_vars

\* ------------------------------------------------------------------------
\* Properties of index population (checked under SpecIndex)
\* ------------------------------------------------------------------------

PopulateReturned == pc = "done"

\* C1: node index population is complete under concurrent writers: once
\* Index_Populate has returned and the index is ACTIVE, every node that
\* carries the indexed label is in the index (put there by the populator or
\* by the writer that created it), for every interleaving of writers with
\* batches and every batch size.
C1_NodeIndexComplete ==
    (entity_type = "NODE" /\ PopulateReturned /\ idx_state = "ACTIVE")
        => labelled \subseteq index

\* C1 witness: the index is enabled and holds a labelled node the populator
\* never saw (a writer created it below the resume row in a release window),
\* beside nodes the populator indexed.
C1_Witness ==
    /\ entity_type = "NODE"
    /\ PopulateReturned
    /\ idx_state = "ACTIVE"
    /\ popIndexed # {}
    /\ \E n \in labelled : n \notin popIndexed /\ n < rowIdx

\* C2 (as claimed): edge index population is complete: once Index_Populate
\* has returned and the index is ACTIVE, every edge stored in the relation
\* matrix is in the index, whatever its slot (row 0 included) and whatever
\* the position of the slot in its batch (the first included).
C2_EdgeIndexComplete ==
    (entity_type = "EDGE" /\ PopulateReturned /\ idx_state = "ACTIVE")
        => StoredEdges \subseteq index

\* C3: the populator holds the read lock only while it iterates one batch:
\* it holds at most one lock, none at the state check, none before it
\* acquires, none once the loop is left (whichever path leaves it), exactly
\* one while it iterates; and at most batch_size matrix entries are indexed
\* in one locked window.
C3_LockPerBatch ==
    /\ rdlocks \in {0, 1}
    /\ pc \in {"idle", "check", "acquire", "enable", "done"} => rdlocks = 0
    /\ pc \in {"batch", "skip", "index", "advance", "release"} => rdlocks = 1
    /\ windowEntries <= batch_size

\* C3 witness: the edge populator left the loop through the skip step
\* (iterator exhausted while skipping), after a full batch, with no lock held.
C3_Witness ==
    /\ entity_type = "EDGE"
    /\ pc = "enable"
    /\ info = "GxB_EXHAUSTED"
    /\ popIndexed # {}
    /\ rdlocks = 0

\* C4: when idx->state is not POPULATING at a batch boundary, the populator
\* leaves the loop without acquiring the read lock and without indexing
\* anything, and once it left the loop it never acquires or indexes again.
C4_AbortAtBatchBoundary ==
    [][ /\ (pc = "check" /\ idx_state # "POPULATING" /\ pc' # "check")
            => (pc' = "enable" /\ rdlocks' = rdlocks /\ popIndexed' = popIndexed)
        /\ pc \in {"enable", "done"}
            => (pc' \in {"enable", "done"} /\ rdlocks' = 0
                /\ popIndexed' = popIndexed)
      ]_vars

\* C4 witness: the loop was left at the state check (the last batch was
\* full, so it was not left for a depleted iterator) on a DROPPED index.
C4_Witness ==
    /\ pc = "enable"
    /\ exitState = "DROPPED"
    /\ indexed = batch_size
    /\ popIndexed # {}

\* C5 (as claimed): after Index_Populate returned, the state is ACTIVE iff
\* it was still POPULATING when the populate loop was left.
C5_ActiveIffPopulatingAtLoopExit ==
    PopulateReturned => ((idx_state = "ACTIVE") <=> (exitState = "POPULATING"))

\* C5 (amended): Index_Populate's call of Index_Enable leaves the state
\* ACTIVE iff the state was still POPULATING when Index_Enable ran; an
\* index whose state was changed while populating is never turned ACTIVE.
C5_ActiveIffPopulatingAtEnable ==
    [][ (pc = "enable" /\ pc' = "done")
            => /\ (idx_state' = "ACTIVE") <=> (idx_state = "POPULATING")
               /\ exitState # "POPULATING" => idx_state' # "ACTIVE"
      ]_vars

\* C5 witness: Index_Populate returned and enabled the index.
C5_Witness ==
    /\ PopulateReturned
    /\ exitState = "POPULATING"
    /\ idx_state = "ACTIVE"

\* ------------------------------------------------------------------------
\* Properties of the delta-matrix (checked under SpecMatrix)
\* ------------------------------------------------------------------------

\* the step is a flush
FlushStep == dm_ops' # dm_ops /\ dm_flushed'.done

\* C7: a flush changes no logical read and leaves nothing pending: for every
\* cell, get returns after the flush what it returned just before it
\* (defined or not, and the same value), and pending() is false after it.
C7_FlushPreservesReads ==
    [][ FlushStep
            => /\ \A c \in Cells :
                    RG_Matrix_get(dm_M', dm_DP', dm_DM', c)
                        = RG_Matrix_get(dm_M, dm_DP, dm_DM, c)
               /\ ~RG_Matrix_pending(dm_DP', dm_DM')
      ]_vars

\* C7 witness: a flush has just run on a matrix whose two overlays shared a
\* cell (a set on a cell the main matrix held).
C7_Witness ==
    /\ dm_flushed.done
    /\ dm_flushed.add \cap dm_flushed.del # {}

\* the cells of S as a sequence in row-major order, columns ascending
RECURSIVE RowMajorSeq(_)
RowMajorSeq(S) ==
    IF S = {} THEN <<>>
    ELSE LET c == CHOOSE x \in S : \A y \in S \ {x} : RowMajorLt(x, y)
         IN  <<c>> \o RowMajorSeq(S \ {c})

\* the cells for which L is defined
LogicalCells == {c \in CellsOf(dm_n) : L_Defined(dm_M, dm_DP, dm_DM, c)}

\* C8: in one pass the tuples the iterator has yielded are the first cells
\* of L in row-major order (columns ascending inside a row), each once and
\* with the value get returns, and when it has returned EXHAUSTED it has
\* yielded every cell of L and nothing else.
C8_IteratorYieldsL ==
    mit_attached =>
        LET Ls == RowMajorSeq(LogicalCells)
        IN  /\ Len(mit_out) <= Len(Ls)
            /\ \A k \in 1 .. Len(mit_out) :
                    /\ <<mit_out[k][1], mit_out[k][2]>> = Ls[k]
                    /\ mit_out[k][3] = RG_Matrix_get(dm_M, dm_DP, dm_DM, Ls[k])
            /\ mit_exhausted => Len(mit_out) = Len(Ls)

\* C8 witness: a pass ended with EXHAUSTED after it yielded a cell of the
\* pending additions and passed over a stored cell marked deleted.
C8_Witness ==
    /\ mit_attached
    /\ mit_exhausted
    /\ \E k \in 1 .. Len(mit_out) : Present(dm_DP, <<mit_out[k][1], mit_out[k][2]>>)
    /\ \E c \in dm_DM : Present(dm_M, c)

\* C9 (as claimed): the pending additions and the main matrix are disjoint
\* in every state reached by set, clear, resize and flush.
C9_PlusDisjointFromMain ==
    \A c \in Cells : ~(Present(dm_M, c) /\ Present(dm_DP, c))

\* ------------------------------------------------------------------------
\* Properties of NodeByLabelScan (checked under SpecScan)
\* ------------------------------------------------------------------------

\* the step is NodeByLabelScanInit
ScanInitStep == sc_pc = "built" /\ sc_pc' = "ready"

\* the ids of r that lie in [0, nrows)
IdsWithin(r, nrows) ==
    {v \in NodeIdValues : UnsignedRange_ContainsValue(r, v) /\ v < nrows}

\* the ids r admits
IdsOf(r) == {v \in NodeIdValues : UnsignedRange_ContainsValue(r, v)}

\* C10: NodeByLabelScanInit selects the consume variant by strict priority:
\* with a child, the child-driven variant and no iterator is built; else
\* with an unknown label id, the no-op variant; else the ID range is
\* tightened to [0, nrows) and, if it is then invalid, the no-op variant,
\* otherwise the standalone variant with the iterator attached over the
\* tightened range. A call of the no-op variant returns none, every time.
C10_InitSelectsConsume ==
    [][ /\ ScanInitStep =>
              IF childCount > 0
              THEN /\ consume' = "NodeByLabelScanConsumeFromChild"
                   /\ ~iter'.attached
                   /\ id_range' = id_range
              ELSE IF label_id = GRAPH_UNKNOWN_LABEL
              THEN /\ consume' = "NodeByLabelScanNoOp"
                   /\ ~iter'.attached
              ELSE /\ IdsOf(id_range') = IdsWithin(id_range, lm_nrows)
                   /\ IF ~UnsignedRange_IsValid(id_range')
                      THEN /\ consume' = "NodeByLabelScanNoOp"
                           /\ ~iter'.attached
                      ELSE /\ consume' = "NodeByLabelScanConsume"
                           /\ iter'.attached
                           /\ IdsOf(id_range')
                                = {v \in NodeIdValues : iter'.min_row <= v
                                                        /\ v <= iter'.max_row}
        /\ (consume = "NodeByLabelScanNoOp" /\ sc_calls' # sc_calls)
              => (sc_last' = NoRecord /\ sc_out' = <<>>)
      ]_vars

\* C10 witness: an operator without child whose label is known took the
\* no-op variant because its ID range, once tightened, was invalid, and
\* two calls of it returned none.
C10_Witness ==
    /\ sc_pc = "ready"
    /\ childCount = 0
    /\ label_id # GRAPH_UNKNOWN_LABEL
    /\ op_type = "OPType_NODE_BY_LABEL_AND_ID_SCAN"
    /\ ~id_range.valid
    /\ lm_nodes # {}
    /\ consume = "NodeByLabelScanNoOp"
    /\ sc_calls >= 2
    /\ sc_last = NoRecord

\* the nodes a scan is to yield: the nodes that carry the label the operator
\* resolved, with an id in the configured range and in [0, nrows), in
\* ascending order
ScanNodes ==
    AscSeq({n \in lm_nodes : /\ label_id # GRAPH_UNKNOWN_LABEL
                             /\ UnsignedRange_ContainsValue(cfg_range, n)
                             /\ n < lm_nrows})

\* a consume call is made on an operator without child
StandaloneConsumeStep ==
    /\ sc_pc = "ready"
    /\ childCount = 0
    /\ sc_calls' = sc_calls + 1
    /\ sc_op' = "consume"

\* C11: a standalone NodeByLabelScan yields one record per node that carries
\* the label and whose id lies in the configured ID range (inclusive and
\* exclusive bounds respected) and in [0, nrows), in ascending id order,
\* each once: every consume call returns the record of the next such node
\* while one is left, and none from then on, on every later call too; over
\* an empty label the first call returns none.
C11_StandaloneScanStream ==
    [][StandaloneConsumeStep =>
          /\ sc_pc' = "ready"
          /\ IF Len(sc_out) < Len(ScanNodes)
             THEN /\ sc_last' = <<0, ScanNodes[Len(sc_out) + 1]>>
                  /\ sc_out' = Append(sc_out, sc_last')
             ELSE /\ sc_last' = NoRecord
                  /\ sc_out' = sc_out
      ]_vars

\* C11 witness: over a label with a node outside the configured range, the
\* scan yielded the nodes inside it and then returned none twice
C11_Witness ==
    /\ sc_pc = "ready"
    /\ childCount = 0
    /\ op_type = "OPType_NODE_BY_LABEL_AND_ID_SCAN"
    /\ ~cfg_range.include_min
    /\ \E n \in lm_nodes : n < lm_nrows /\ ~UnsignedRange_ContainsValue(cfg_range, n)
    /\ ScanNodes # <<>>
    /\ sc_out = [i \in 1 .. Len(ScanNodes) |-> <<0, ScanNodes[i]>>]
    /\ sc_last = NoRecord
    /\ sc_calls = Len(sc_out) + 2

\* the nodes a child-driven scan is to yield for every child record: those
\* of the label as the operator resolves it on its first child record
ChildScanNodes ==
    AscSeq({n \in lm_nodes :
                /\ update_label_id(label_id, schema_exists) # GRAPH_UNKNOWN_LABEL
                /\ UnsignedRange_ContainsValue(cfg_range, n)
                /\ n < lm_nrows})

\* for each child record in order, one record per node in ascending order:
\* the clone of the child record with the node in its slot
FromChildStream ==
    [i \in 1 .. (child_len * Len(ChildScanNodes)) |->
        <<((i - 1) \div Len(ChildScanNodes)) + 1,
          ChildScanNodes[((i - 1) % Len(ChildScanNodes)) + 1]>>]

\* a consume call on an operator with a child returns
ChildDrivenConsumeStep ==
    /\ sc_pc = "ready"
    /\ childCount > 0
    /\ sc_calls' = sc_calls + 1
    /\ sc_op' = "consume"
    /\ sc_pc' = "ready"

\* C12: a child-driven NodeByLabelScan over child records c1..ck and the
\* nodes N of the label within the range yields, for each ci in order, one
\* record per node of N in ascending id order, each the clone of ci with
\* the node in its slot: k * |N| records, then none. No child record is
\* skipped and none is paired with a part of N only.
C12_ChildDrivenScanStream ==
    [][ChildDrivenConsumeStep =>
          IF Len(sc_out) < Len(FromChildStream)
          THEN /\ sc_last' = FromChildStream[Len(sc_out) + 1]
               /\ sc_out' = Append(sc_out, sc_last')
          ELSE /\ sc_last' = NoRecord
               /\ sc_out' = sc_out
      ]_vars

\* C12 witness: two child records were each paired with every node of the
\* label, and the next call returned none
C12_Witness ==
    /\ sc_pc = "ready"
    /\ childCount > 0
    /\ child_len = 2
    /\ ChildScanNodes # <<>>
    /\ sc_out = FromChildStream
    /\ sc_op = "consume"
    /\ sc_last = NoRecord

\* ------------------------------------------------------------------------
\* Properties of Skip (SpecSkip)
\* ------------------------------------------------------------------------

\* a consume call is made on the plan
SkipConsumeStep == sk_calls' = sk_calls + 1 /\ Len(sk_passes') = Len(sk_passes)

\* C13: deterministic replay. For a plan Skip(n) over a standalone
\* NodeByLabelScan on an unchanged graph, once the operators were reset,
\* after a consumption stopped at any point, every consume call returns the
\* record the initial full consumption returned at the same position, and
\* none from the position on at which the initial consumption ended.
C13_ResetReplays ==
    [][(SkipConsumeStep /\ sk_passes # <<>>) =>
          /\ sk_initial' = sk_initial
          /\ IF Len(sk_out) < Len(sk_initial)
             THEN /\ sk_last' = sk_initial[Len(sk_out) + 1]
                  /\ sk_out' = Append(sk_out, sk_last')
             ELSE /\ sk_last' = NoRecord
                  /\ sk_out' = sk_out
      ]_vars

\* C13 witness: a plan that skips one of two nodes was reset after it
\* returned its record, before it reported exhaustion, and then consumed
\* to exhaustion
C13_Witness ==
    /\ skip = 1
    /\ Cardinality(lm_nodes) = 2
    /\ sk_initial # <<>>
    /\ sk_passes = <<1>>
    /\ sk_out = sk_initial
    /\ sk_last = NoRecord

\* the stream r1..rm of the child of Skip: the records of the scan
ChildStream == [i \in 1 .. Len(ScanNodes) |-> <<0, ScanNodes[i]>>]

\* C14: Skip with value n over a child stream r1..rm, m >= n, returns
\* r(n+1)..rm in order and then none; the first n records of the child are
\* deleted and none of them is returned; with n = 0 the stream of the child
\* is passed through unchanged.
C14_SkipDropsFirstN ==
    [][(SkipConsumeStep /\ Len(ChildStream) >= skip) =>
          /\ IF skip + Len(sk_out) < Len(ChildStream)
             THEN /\ sk_last' = ChildStream[skip + Len(sk_out) + 1]
                  /\ sk_out' = Append(sk_out, sk_last')
             ELSE /\ sk_last' = NoRecord
                  /\ sk_out' = sk_out
          /\ sk_deleted' = SubSeq(ChildStream, 1, skip)
      ]_vars

\* C14 witness: Skip(1) over two records deleted the first, returned the
\* second and then none
C14_Witness ==
    /\ skip = 1
    /\ Len(ChildStream) = 2
    /\ sk_passes = <<>>
    /\ sk_deleted = <<ChildStream[1]>>
    /\ sk_out = <<ChildStream[2]>>
    /\ sk_last = NoRecord

\* C15: when the skip value exceeds the length of the child's stream, the
\* first consume call and every later one return none, no record is
\* returned and no error is set.
C15_SkipBeyondStream ==
    [][(SkipConsumeStep /\ skip > Len(ChildStream)) =>
          /\ sk_last' = NoRecord
          /\ sk_out' = <<>>
          /\ ~sk_error'
      ]_vars

\* C15 witness: Skip(2) over a stream of one record returned none twice
C15_Witness ==
    /\ skip = 2
    /\ Len(ChildStream) = 1
    /\ sk_passes = <<>>
    /\ sk_calls = 2
    /\ sk_last = NoRecord
    /\ sk_out = <<>>
    /\ ~sk_error

\* NewSkipOp is called, SkipClone is called
SkipBuildStep == sk_pc = "none" /\ sk_pc' = "built"

SkipCloneStep == cl_pc = "none" /\ cl_pc' = "built"

\* a skip value that is an int64 and not negative
NonNegativeInt64(v) == v[1] = T_INT64 /\ v[2] >= 0

\* C16: Skip keeps an unevaluated copy of its expression. Building the
\* operator evaluates only the expression passed in and stores a copy of
\* it as it was given; the clone is built from a fresh copy of the stored
\* expression, so that a clone of a plan built with SKIP $n takes the value
\* $n has when the clone is made; cloning leaves the skip value and the
\* stored expression of the original as they were.
C16_CloneReevaluates ==
    [][ /\ SkipBuildStep =>
              /\ skip_exp' = exp_arg'.given
              /\ exp_arg'.left = ConstantExpression(AR_EXP_Evaluate(exp_arg'.given, params))
        /\ SkipCloneStep =>
              /\ skip' = skip
              /\ skipped' = skipped
              /\ skip_exp' = skip_exp
              /\ skip_exp = exp_arg.given
              /\ cl_skip_exp' = exp_arg.given
              /\ (exp_arg.given = ParameterExpression /\ NonNegativeInt64(params))
                    => (cl_skip' = params[2] /\ ~cl_error' /\ cl_skipped' = 0)
      ]_vars

\* C16 witness: a plan built with SKIP $n while n = 1 was cloned while
\* n = 2: the original skips 1, the clone skips 2
C16_Witness ==
    /\ exp_arg.given = ParameterExpression
    /\ skip_exp = ParameterExpression
    /\ skip = 1
    /\ cl_pc = "built"
    /\ cl_skip = 2
    /\ cl_skip_exp = ParameterExpression
    /\ ~cl_error

\* C17: building a Skip operator reports the non-negative-integer error if
\* and only if the value the expression evaluates to is not an int64 or is
\* negative; a valid value n >= 0 reports no error and sets skip = n with
\* skipped = 0.
C17_SkipValueValidated ==
    [][ /\ SkipBuildStep =>
              LET s == AR_EXP_Evaluate(exp_arg'.given, params)
              IN  /\ sk_error' <=> ~NonNegativeInt64(s)
                  /\ NonNegativeInt64(s) => (skip' = s[2] /\ skipped' = 0)
        /\ SkipCloneStep =>
              LET s == AR_EXP_Evaluate(skip_exp, params)
              IN  /\ cl_error' <=> ~NonNegativeInt64(s)
                  /\ NonNegativeInt64(s) => (cl_skip' = s[2] /\ cl_skipped' = 0)
      ]_vars

\* C17 witness: a Skip operator built from a negative value reported the
\* error
C17_Witness ==
    /\ sk_pc = "built"
    /\ exp_arg.left = ConstantExpression(<<T_INT64, -1>>)
    /\ sk_error


\* ------------------------------------------------------------------------
\* Properties of LoadCSV (SpecCsv)
\* ------------------------------------------------------------------------

\* the value is a string that names a file that can be opened
CsvReadable(v) == v[1] = T_STRING /\ v[2] \in DOMAIN csv_files

\* every path the operator is given can be read
CsvInputsReadable ==
    IF csv_has_child
    THEN \A k \in 1 .. Len(csv_child) : CsvReadable(csv_child[k])
    ELSE CsvReadable(csv_exp)

\* the rows of the file v names, in file order, each in a record for the
\* child record at position k
CsvRowRecords(k, v) == [i \in 1 .. csv_files[v[2]] |-> <<k, <<v[2], i>>>>]

\* the rows of the files the child records from position k on name
RECURSIVE CsvChildStream(_)
CsvChildStream(k) ==
    IF k > Len(csv_child) THEN <<>>
    ELSE CsvRowRecords(k, csv_child[k]) \o CsvChildStream(k + 1)

CsvStream ==
    IF csv_has_child THEN CsvChildStream(1) ELSE CsvRowRecords(0, csv_exp)

\* the sum over the child records from position k on of the row count of
\* the file each names
RECURSIVE CsvRowCount(_)
CsvRowCount(k) ==
    IF k > Len(csv_child) THEN 0
    ELSE csv_files[csv_child[k][2]] + CsvRowCount(k + 1)

\* after the given number of consume calls the records returned are the
\* first ones of the stream, one per call until the stream is over
CsvYielded(calls) ==
    /\ Len(csv_out) = Min({calls, Len(CsvStream)})
    /\ csv_out = SubSeq(CsvStream, 1, Len(csv_out))

\* C18: LoadCSV yields exactly one record per CSV row, in file order, then
\* none. With a child, for each child record in order the path is evaluated
\* on that record and a reader opened for it; one clone of the child record
\* is yielded per row of the file, then the next child record is taken: the
\* output count is the sum over the child records of the row count of the
\* file each names.
C18_OneRecordPerRow ==
    (csv_pc = "ready" /\ CsvInputsReadable /\ csv_resets = 0) =>
        /\ CsvYielded(csv_pass_calls)
        /\ csv_pass_calls > Len(CsvStream) => csv_last = NoRecord
        /\ csv_has_child =>
              /\ Len(CsvStream) = CsvRowCount(1)
              /\ csv_child_record # 0 =>
                    /\ csv_child_record = csv_child_pos
                    /\ csv_path = csv_child[csv_child_record]
                    /\ csv_reader[1] = csv_path[2]
        /\ csv_exceptions = <<>>

\* C18 witness: a child of two records, the first naming a file of two rows
\* and the second a file of one row, was consumed to exhaustion: three
\* records, then none
C18_Witness ==
    /\ csv_has_child
    /\ csv_resets = 0
    /\ Len(csv_child) = 2
    /\ CsvInputsReadable
    /\ csv_child[1] # csv_child[2]
    /\ csv_files[csv_child[1][2]] = 2
    /\ csv_files[csv_child[2][2]] = 1
    /\ Len(csv_out) = 3
    /\ csv_out = CsvStream
    /\ csv_pass_calls = 4
    /\ csv_last = NoRecord

\* the exception a path that cannot be read raises
CsvException(v) ==
    IF v[1] # T_STRING THEN "EMSG_INVALID_CSV_PATH" ELSE "EMSG_FAILED_TO_LOAD_CSV"

\* the exceptions the first n records of the child raise
RECURSIVE CsvChildExceptions(_)
CsvChildExceptions(n) ==
    IF n = 0 THEN <<>>
    ELSE IF CsvReadable(csv_child[n])
         THEN CsvChildExceptions(n - 1)
         ELSE Append(CsvChildExceptions(n - 1), CsvException(csv_child[n]))

\* C19: a path expression that does not evaluate to a string, or a reader
\* that cannot be opened, raises a runtime exception and no record is
\* emitted for that input; for the operator without child the consume
\* function becomes the depleted one, so that every consume call returns
\* none.
C19_ErrorHandling ==
    (csv_pc \notin {"none", "new"}) =>
        IF csv_has_child
        THEN /\ \A i \in 1 .. Len(csv_out) : CsvReadable(csv_child[csv_out[i][1]])
             /\ csv_resets = 0 => csv_exceptions = CsvChildExceptions(csv_child_pos)
        ELSE ~CsvReadable(csv_exp) =>
                /\ csv_exceptions # <<>>
                /\ csv_exceptions[1] = CsvException(csv_exp)
                /\ csv_pc = "ready" => csv_consume = "LoadCSVConsumeDepleted"
                /\ csv_out = <<>>
                /\ csv_last = NoRecord

\* C19 witness: an operator without child whose path is not a string was
\* initialised and asked for records twice
C19_Witness ==
    /\ ~csv_has_child
    /\ csv_exp[1] # T_STRING
    /\ csv_pc = "ready"
    /\ csv_consume = "LoadCSVConsumeDepleted"
    /\ csv_exceptions[1] = "EMSG_INVALID_CSV_PATH"
    /\ csv_pass_calls = 2
    /\ csv_out = <<>>

\* C20: resetting a LoadCSV operator rewinds it: after a reset, made through
\* the reset function registered for the operator, consumption yields the
\* same records as the initial consumption; the operator without child
\* reads the file again from its first row.
C20_ResetRewinds ==
    (csv_pc = "ready" /\ CsvInputsReadable /\ csv_resets > 0) =>
        CsvYielded(csv_pass_calls)

\* ------------------------------------------------------------------------
\* Properties of the all-neighbors traversal (SpecTraverse)
\* ------------------------------------------------------------------------

\* the paths of k edges from the source: the nodes before the last one are
\* pairwise distinct, the last one may close a cycle
TraversePaths(k) ==
    {w \in [1 .. (k + 1) -> TraverseNodes] :
        /\ w[1] = an_src
        /\ \A i \in 1 .. k : <<w[i], w[i + 1]>> \in an_M
        /\ \A i, j \in 1 .. k : i # j => w[i] # w[j]}

\* the paths of a length within the bounds that end in d
TraversePathsTo(d) ==
    UNION {{<<k, w>> : w \in {x \in TraversePaths(k) : x[k + 1] = d}} :
              k \in an_minLen .. an_maxLen}

\* how many times d was returned
TimesReturned(d) == Cardinality({i \in 1 .. Len(an_out) : an_out[i] = d})

TraverseDone == an_calls > 0 /\ an_last = INVALID_ENTITY_ID

\* the graph a->b->c->a
CycleGraph == {<<0, 1>>, <<1, 2>>, <<2, 0>>}

\* C21: the all-neighbors DFS from a source with depth bounds
\* [minLen, maxLen] returns a destination for every path of a length within
\* the bounds; a path may close a cycle and the node that closes it is
\* returned, but the traversal does not expand from it (the nodes of the
\* current path are distinct); a destination is returned once for each path
\* it ends. On the graph a->b->c->a with bounds 1..3 from a it returns b, c,
\* a and then stops.
C21_AllNeighborsPaths ==
    /\ \A i, j \in 1 .. Len(an_visited) : i # j => an_visited[i] # an_visited[j]
    /\ Len(an_visited) <= an_maxLen
    /\ \A d \in TraverseNodes : TimesReturned(d) <= Cardinality(TraversePathsTo(d))
    /\ TraverseDone =>
          /\ \A d \in TraverseNodes : TimesReturned(d) = Cardinality(TraversePathsTo(d))
          /\ (an_M = CycleGraph /\ an_minLen = 1 /\ an_maxLen = 3) => an_out = <<1, 2, 0>>

\* C21 witness: the traversal of a->b->c->a with bounds 1..3 is over
C21_Witness ==
    /\ an_M = CycleGraph
    /\ an_minLen = 1
    /\ an_maxLen = 3
    /\ TraverseDone
    /\ an_out = <<1, 2, 0>>
    /\ an_calls = 4

\* ------------------------------------------------------------------------
\* Properties of the v13 graph decoder (SpecDecode)
\* ------------------------------------------------------------------------

\* the first virtual key has arrived and the decode is not finalized
BeingDecoded == gd_order # <<>> /\ gd_finalized = 0

\* C22, as stated: while a graph is being decoded, from its first virtual
\* key until the last one has been processed, the matrix-sync policy of the
\* graph is RESIZE; it becomes FLUSH-RESIZE only at finalization.
C22_PolicyResizeWhileDecoding ==
    /\ BeingDecoded => gd_policy = "SYNC_POLICY_RESIZE"
    /\ gd_policy = "SYNC_POLICY_FLUSH_RESIZE" => (gd_order = <<>> \/ gd_finalized > 0)

\* C22, amended: while a graph is being decoded the policy is RESIZE until
\* the first nodes or edges payload is decoded and NOP from then on; it is
\* never FLUSH-RESIZE before the finalization, which sets it.
C22_PolicyWhileDecoding ==
    /\ BeingDecoded =>
          gd_policy = IF gd_entities THEN "SYNC_POLICY_NOP" ELSE "SYNC_POLICY_RESIZE"
    /\ gd_finalized > 0 => gd_policy = "SYNC_POLICY_FLUSH_RESIZE"
    /\ gd_policy = "SYNC_POLICY_FLUSH_RESIZE" => (gd_order = <<>> \/ gd_finalized > 0)

\* C22 witness: the second virtual key of a graph is being decoded after a
\* key with a nodes payload; the policy is NOP
C22_Witness ==
    /\ BeingDecoded
    /\ Len(gd_order) = 2
    /\ gd_pc = "payloads"
    /\ gd_payload = 0
    /\ gd_keys[gd_order[1]] = <<"ENCODE_STATE_NODES">>
    /\ gd_policy = "SYNC_POLICY_NOP"

\* C23: the finalization of a decode (node labels set, matrices flushed,
\* policy restored, pending indices enabled, decoding context reset) runs
\* exactly once, in the call that processes the last of the key_number
\* virtual keys and in no call before it, whatever the order the keys arrive
\* in; no pending index is enabled before that.
C23_FinalizedOnceAtLastKey ==
    /\ gd_finalized \in {0, 1}
    /\ gd_finalized = 1 <=>
          (gd_pc = "idle" /\ Len(gd_order) = Len(gd_keys) /\ gd_order # <<>>)
    /\ gd_finalized = 0 =>
          /\ \A s \in DecodeSchemas : gd_index[s] # "active"
          /\ gd_final_ops = <<>>
          /\ gd_order # <<>> => (gd_key_count = Len(gd_keys) /\ gd_allocated = 1)
          /\ gd_processed = Len(gd_order) - (IF gd_pc = "payloads" THEN 1 ELSE 0)
    /\ gd_finalized = 1 =>
          /\ gd_final_at = Len(gd_keys)
          /\ gd_final_ops = <<"Serializer_Graph_SetNodeLabels", "Graph_ApplyAllPending",
                              "Graph_SetMatrixPolicy", "Index_Enable",
                              "GraphDecodeContext_Reset">>
          /\ gd_policy = "SYNC_POLICY_FLUSH_RESIZE"
          /\ \A s \in DecodeSchemas :
                gd_index[s] = IF s \in gd_indexed THEN "active" ELSE "none"
          /\ gd_processed = 0
          /\ gd_allocated = 1

\* C23 witness: three virtual keys arrived in the order 3, 1, 2 and the
\* decode of a graph with two indices was finalized
C23_Witness ==
    /\ gd_order = <<3, 1, 2>>
    /\ gd_finalized = 1
    /\ gd_indexed = DecodeSchemas
    /\ \A s \in DecodeSchemas : gd_index[s] = "active"

\* ------------------------------------------------------------------------
\* Properties of the snapshot (SpecSnapshot)
\* ------------------------------------------------------------------------

\* the relation matrices of the saved graph: <<r, src, dest>> to the ids of
\* the edges stored there
RelationMatrices ==
    [key \in UNION {{<<r, slot[1], slot[2]>> : slot \in Graph_GetRelationMatrix(g_edges, r)} :
                        r \in 0 .. (Graph_RelationTypeCount - 1)} |->
        RelationValue(g_edges, key[1], <<key[2], key[3]>>)]

\* the payload writer calls made for one payload type
CallsFor(p) == SelectSeq(enc_budgets, LAMBDA b : b[1] = p)

\* C6: snapshot round trip. Decoding the version 14 encoding of a graph,
\* however the caller split the entities into payloads, reads the whole
\* stream without error and yields a graph equal to the saved one in its
\* nodes and their labels and attributes, its edges and their attributes,
\* its relation matrices (parallel edges included) and its deleted-ID
\* lists, in their order.
C6_SnapshotRoundTrip ==
    dec_done =>
        /\ dec.ok
        /\ dec.pos = Len(io) + 1
        /\ dec.nodes = g_nodes
        /\ dec.deleted_nodes = g_deleted_nodes
        /\ dec.edges = g_edges
        /\ dec.deleted_edges = g_deleted_edges
        /\ dec.relation_count = g_relation_count
        /\ dec.matrices = RelationMatrices

\* a graph with parallel edges, saved with the multi-edge array split over
\* two edge payloads, has been decoded
C6_Witness ==
    /\ dec_done
    /\ dec.ok
    /\ ContainsMultiEdge(g_edges, 0)
    /\ Len(CallsFor("EDGES")) = 2
    /\ \E key \in DOMAIN dec.matrices : Len(dec.matrices[key]) = 2

\* a step that is a payload writer call
WriterCalled == <<enc_last, enc_zero>>' # <<enc_last, enc_zero>>

\* the context the payload writers keep between calls
EncodingContext == <<enc_state, enc_offset, enc_dbiter, enc_r, enc_miter, enc_multi>>

\* C24: each payload writer writes exactly the n entities it is asked for.
\* RdbSaveNodes_v14(n) writes the n next live nodes in id order,
\* RdbSaveEdges_v14(n) writes n distinct live edges whenever at least n
\* remain, RdbSaveDeletedNodes_v14(n) and RdbSaveDeletedEdges_v14(n) write
\* the n ids of the deleted list that start at the processed offset, in list
\* order; a call with n = 0 writes nothing and leaves the encoding context
\* unchanged.
C24_WritersWriteExactlyN ==
    [][WriterCalled =>
        LET call == enc_last'
            n == call.asked
        IN  /\ Len(call.ids) = n
            /\ call.phase = "NODES" =>
                   call.ids = SubSeq(AscSeq(LiveIds(g_nodes)), call.offset + 1, call.offset + n)
            /\ call.phase = "EDGES" =>
                   /\ \A i \in 1 .. n : call.ids[i] \in LiveIds(g_edges)
                   /\ \A i, j \in 1 .. n : call.ids[i] = call.ids[j] => i = j
            /\ call.phase = "DELETED_NODES" =>
                   call.ids = SubSeq(g_deleted_nodes, call.offset + 1, call.offset + n)
            /\ call.phase = "DELETED_EDGES" =>
                   call.ids = SubSeq(g_deleted_edges, call.offset + 1, call.offset + n)
            /\ n = 0 => /\ io' = io
                        /\ EncodingContext' = EncodingContext
            /\ n > 0 => Len(io') > Len(io)
    ]_vars

\* an edges payload of one edge has cut a multi-edge array of two edges at
\* the budget, and the next call, with budget 0, has returned at once
C24_Witness ==
    /\ enc_budgets # <<>>
    /\ enc_budgets[Len(enc_budgets)] = <<"EDGES", 1>>
    /\ Len(enc_multi.array) = 2
    /\ enc_multi.index = 1
    /\ enc_last.phase = "EDGES"
    /\ enc_last.asked = 0
    /\ enc_zero = 1

\* the ids stored at a slot of the relation matrix
IdsAt(s, d) == {R[<<s, d>>][k] : k \in 1 .. Len(R[<<s, d>>])}

\* C25: every edge the edge populator passes to Index_IndexEdge is stored at
\* the (src, dest) slot the iterator points to: the ids used for a slot are
\* the ids the matrix holds there, also for the first slot of a batch, the
\* one the skip step stops at.
C25_IndexedEdgeIsStored ==
    (entity_type = "EDGE" /\ pc = "index") =>
        {x[1] : x \in EdgesToIndex} = IdsAt(src_id, dest_id)

\* the entries of the matrix the populator iterates
PopulatedEntries == IF entity_type = "NODE" THEN LabelEntries ELSE RelationEntries

\* no write query was committed since Index_Populate began
NoConcurrentMutation == pc # "idle" /\ writes = writesAtStart

\* C26: with no concurrent graph mutation the populator processes every
\* matrix entry at most once over the whole run, in row-major order: each
\* processed entry lies strictly after the one processed before it, in the
\* same batch or in an earlier one, and no entry of the matrix lies between
\* two entries processed in a row; between two batches the node populator
\* resumes at row last_id + 1 and the edge populator holds the last processed
\* (src, dest) as the slot to resume after.
C26_EachEntryAtMostOnce ==
    NoConcurrentMutation =>
        /\ \A i \in 1 .. (Len(popSlots) - 1) :
               /\ LexLt(popSlots[i], popSlots[i + 1])
               /\ \A e \in PopulatedEntries :
                      ~(LexLt(popSlots[i], e) /\ LexLt(e, popSlots[i + 1]))
        /\ (popSlots # <<>> /\ pc = "acquire") =>
               IF entity_type = "NODE"
               THEN rowIdx = popSlots[Len(popSlots)][1] + 1
               ELSE <<prev_src_id, prev_dest_id>> = popSlots[Len(popSlots)]

\* an edge index was populated in two batches of one slot each without any
\* write query in between
C26_Witness ==
    /\ NoConcurrentMutation
    /\ entity_type = "EDGE"
    /\ batch_size = 1
    /\ Len(popSlots) = 2
    /\ pc = "done"

\* a step that processes one slot of the relation matrix
SlotProcessed == entity_type = "EDGE" /\ pc = "index" /\ pc' = "advance"

\* C27: a multi-edge slot is never split across batches. When the edge
\* populator processes a slot that holds an array of edge ids, every edge of
\* the array is passed to Index_IndexEdge within the same read-locked window,
\* and the slot adds one to indexed.
C27_MultiEdgeSlotAtomic ==
    [][(SlotProcessed /\ Len(R[<<src_id, dest_id>>]) > 1) =>
        /\ rdlocks = 1
        /\ rdlocks' = 1
        /\ indexed' = indexed + 1
        /\ \A i \in IdsAt(src_id, dest_id) : <<i, src_id, dest_id>> \in popIndexed'
    ]_vars

\* C29 as stated: the populator never processes an entry at a moment when
\* idx->state is not POPULATING.
C29_NoInsertionAfterStateChange == lateEntries = 0

\* C29: the populator checks idx->state at the top of each batch only. After
\* a state change it processes at most the entries of the batch it had
\* checked the state for, batch_size at most, and leaves the loop at the
\* next check.
C29_AtMostOneBatchAfterStateChange ==
    /\ lateEntries <= batch_size
    /\ (pc \in {"done", "enable"} /\ lateEntries > 0) => exitState # "POPULATING"

\* the state changed right after the check and a whole batch of two entries
\* was indexed before the populator stopped
C29_Witness ==
    /\ batch_size = 2
    /\ lateEntries = 2
    /\ idx_state = "DROPPED"
    /\ pc = "done"

\* the step after a batch: the lock is released and the loop goes on or ends
BatchEnded == pc = "release" /\ pc' # "release"

\* C28: Index_Populate terminates. With finitely many write queries and the
\* populator scheduled fairly, a batch that indexed batch_size entries leaves
\* the resume position (rowIdx for nodes, (src_id, dest_id) for edges)
\* strictly after the one the batch began with, a batch that indexed fewer
\* ends the loop, and once Index_Populate has begun Index_Enable is
\* eventually called and the populator returns.
C28_PopulateTerminates ==
    /\ [][BatchEnded =>
            IF indexed = batch_size
            THEN /\ pc' = "check"
                 /\ IF entity_type = "NODE"
                    THEN rowIdx' > rowIdx
                    ELSE LexLt(<<prev_src_id, prev_dest_id>>, <<src_id', dest_id'>>)
            ELSE pc' = "enable"
       ]_vars
    /\ (pc = "check") ~> (pc = "done")

\* a node index was populated in three batches of one node, with write
\* queries committed between the batches, and Index_Populate has returned
C28_Witness ==
    /\ entity_type = "NODE"
    /\ batch_size = 1
    /\ Len(popSlots) = 3
    /\ writes > writesAtStart
    /\ pc = "done"

\* the iterator of the scan cannot be constructed: the label is known and
\* the ID range, tightened to the rows of the label matrix, is not valid
IteratorCannotBeBuilt ==
    /\ update_label_id(label_id, schema_exists) # GRAPH_UNKNOWN_LABEL
    /\ ~IteratorBuilt(ConstructIterator(id_range, iter, lm_nrows).info)

\* the child records the child has yet to produce, in order
RemainingChildRecords == [i \in 1 .. (child_len - child_next) |-> child_next + i]

\* a consume call is made on a child-driven operator
ChildDrivenConsumeCall ==
    /\ sc_pc = "ready"
    /\ childCount > 0
    /\ sc_calls' = sc_calls + 1
    /\ sc_op' = "consume"

\* C30: a consume call on a child-driven NodeByLabelScan whose iterator
\* cannot be constructed pulls every remaining child record and deletes each
\* of them, returns none without having emitted a record, leaves the child
\* exhausted and no child record held, and raises no error.
C30_InvalidRangeDrainsChild ==
    [][(ChildDrivenConsumeCall /\ IteratorCannotBeBuilt) =>
          /\ sc_pc' = "ready"
          /\ sc_last' = NoRecord
          /\ sc_out' = sc_out
          /\ child_next' = child_len
          /\ child_record' = 0
          /\ sc_deleted' = sc_deleted
                               \o (IF child_record # 0 THEN <<child_record>> ELSE <<>>)
                               \o RemainingChildRecords
          /\ iter' = iter
      ]_vars

\* a child of two records was drained by one consume call on an operator
\* whose ID range is invalid for the label matrix
C30_Witness ==
    /\ sc_pc = "ready"
    /\ childCount > 0
    /\ IteratorCannotBeBuilt
    /\ child_len = 2
    /\ sc_deleted = <<1, 2>>
    /\ sc_op = "consume"
    /\ sc_last = NoRecord
    /\ sc_out = <<>>

\* the child records pulled since the last reset
PulledChildRecords == 1 .. child_next

\* the elements of a sequence
Range(q) == {q[i] : i \in 1 .. Len(q)}

\* the operator has a child and has neither failed nor been left undefined
ChildDrivenScan == childCount > 0 /\ sc_pc \in {"ready", "freed"}

\* a reset or free call on the operator
ResetOrFreeStep == sc_op' \in {"reset", "free"} /\ (sc_calls' # sc_calls \/ sc_pc' = "freed")

\* C31: record ownership in NodeByLabelScan. The operator holds at most one
\* child record, one of those it pulled; every other record pulled since the
\* last reset has been deleted exactly once, the held one not at all; a reset
\* or a free deletes the held record and leaves none held; a record returned
\* is built from the held record, which is not deleted, and is a record of
\* its own, not the held one.
C31_RecordOwnership ==
    /\ [](ChildDrivenScan =>
            /\ child_record \in {0} \cup PulledChildRecords
            /\ \A i, j \in 1 .. Len(sc_deleted) : sc_deleted[i] = sc_deleted[j] => i = j
            /\ IF sc_pc = "freed"
               THEN /\ child_record = 0
                    /\ sc_dropped \notin Range(sc_deleted)
                    /\ Range(sc_deleted) \cup ({sc_dropped} \ {0}) = PulledChildRecords
               ELSE Range(sc_deleted) = PulledChildRecords \ {child_record}
            /\ sc_handed = 0
            /\ (sc_op = "consume" /\ sc_last # NoRecord) =>
                   /\ child_record # 0
                   /\ sc_last[1] = child_record)
    /\ [][(ResetOrFreeStep /\ childCount > 0) =>
            /\ sc_dropped' = child_record
            /\ child_record' = 0
       ]_vars

\* a child of two records: the first was deleted when the second was pulled,
\* the second by the free that followed a returned record
C31_Witness ==
    /\ childCount > 0
    /\ sc_pc = "freed"
    /\ child_len = 2
    /\ sc_deleted = <<1>>
    /\ sc_dropped = 2
    /\ sc_out # <<>>

\* the stream of a standalone scan of the label with ID range r
StreamOfRange(r) ==
    AscSeq({n \in lm_nodes : UnsignedRange_ContainsValue(r, n) /\ n < lm_nrows})

\* C32: cloning a NodeByLabelScan on which NodeByLabelScanOp_SetIDRange was
\* called succeeds and yields an operator of the same kind (Node By Label
\* and ID Scan) with the same ID range, so that clone and original produce
\* the same stream on the same graph.
C32_CloneKeepsIdRange ==
    (sc_clone # NotCloned /\ op_type = "OPType_NODE_BY_LABEL_AND_ID_SCAN") =>
        /\ sc_clone.status = "cloned"
        /\ sc_clone.op_type = op_type
        /\ sc_clone.id_range = cfg_range
        /\ StreamOfRange(sc_clone.id_range) = StreamOfRange(cfg_range)

\* a SkipReset call
SkipResetStep == sk_calls' = sk_calls + 1 /\ Len(sk_passes') = Len(sk_passes) + 1

\* C33: Skip state invariant. On an operator built without error,
\* 0 <= skipped <= skip in every state; a consume call adds to skipped
\* exactly the number of child records it discarded; no step after the
\* construction changes skip or the stored expression; a reset sets skipped
\* to 0 and changes nothing else of the operator, whatever the parameters
\* are by then.
C33_SkipStateInvariant ==
    /\ []((sk_pc = "built" /\ ~sk_error) => (0 <= skipped /\ skipped <= skip))
    /\ [][sk_pc = "built" =>
            /\ skip' = skip
            /\ skip_exp' = skip_exp
            /\ sk_error' = sk_error
            /\ SkipConsumeStep =>
                   /\ Len(sk_deleted') >= Len(sk_deleted)
                   /\ skipped' = skipped + (Len(sk_deleted') - Len(sk_deleted))
            /\ SkipResetStep => skipped' = 0
       ]_vars

\* SKIP $n built with $n = 1: a record was discarded and one returned, the
\* parameter was changed, and the reset left skip at 1 and skipped at 0
C33_Witness ==
    /\ sk_pc = "built"
    /\ skip_exp = ParameterExpression
    /\ skip = 1
    /\ params # <<T_INT64, 1>>
    /\ sk_passes # <<>>
    /\ sk_passes[Len(sk_passes)] = 1
    /\ sk_last = NoRecord
    /\ skipped = 0

\* C34: LoadCSV never opens a CSV reader for a path value that is not a
\* string: every value CSVReader_New was called for, at init for the
\* operator without child or for a child record, is of type T_STRING.
C34_ReaderOpenedOnStringsOnly ==
    \A v \in csv_opened : SI_TYPE(v) = T_STRING

\* The payload types after EDGES: the caller is there once every edge of
\* the graph has been asked for.
EdgesEncoded == enc_state \in {"DELETED_EDGES", "DONE"}

\* the ids of the edges RdbSaveEdges_v14 has written so far
SavedEdgeIds == {enc_edges[i][1] : i \in 1 .. Len(enc_edges)}

\* C35: whatever the budgets of the successive RdbSaveEdges_v14 calls, every
\* edge is written at most once, each with its own id, the (src, dest) of its
\* matrix slot and the relation id of its matrix, and once the calls have
\* covered the edge count every edge of every relation has been written.
C35_EdgesWrittenOnce ==
    /\ \A i \in 1 .. Len(enc_edges) :
           LET e == enc_edges[i]
           IN  /\ e[1] \in LiveIds(g_edges)
               /\ g_edges[e[1] + 1].src = e[2]
               /\ g_edges[e[1] + 1].dest = e[3]
               /\ g_edges[e[1] + 1].rel = e[4]
               /\ e[1] \in Range(RelationValue(g_edges, e[4], <<e[2], e[3]>>))
    /\ \A i, j \in 1 .. Len(enc_edges) : i # j => enc_edges[i][1] # enc_edges[j][1]
    /\ EdgesEncoded => SavedEdgeIds = LiveIds(g_edges)

\* two edges of one slot written by two calls of budget 1: the first call
\* stopped inside the multiple-edges array, the second at its end, which is
\* the end of the last relation matrix
C35_Witness ==
    /\ EdgesEncoded
    /\ Len(enc_edges) = 2
    /\ enc_edges[1][2] = enc_edges[2][2]
    /\ enc_edges[1][3] = enc_edges[2][3]
    /\ enc_edges[1][4] = enc_edges[2][4]
    /\ Len(SelectSeq(enc_budgets, LAMBDA b : b = <<"EDGES", 1>>)) = 2

\* a step of RdbSaveNodes_v14 that wrote nodes
NodesWritten == enc_nodes' # enc_nodes

\* every live node has been written
AllNodesSaved == Range(enc_nodes) = LiveIds(g_nodes)

\* C36: over the RdbSaveNodes_v14 calls the live nodes are written once each
\* in ascending id order; a datablock iterator is created only by a call
\* that finds none in the context, and it is freed, the context's iterator
\* set to none, exactly by the call that writes the last node.
C36_NodesOnceAscending ==
    /\ [](/\ \A i, j \in 1 .. Len(enc_nodes) : i < j => enc_nodes[i] < enc_nodes[j]
          /\ Range(enc_nodes) \subseteq LiveIds(g_nodes)
          /\ enc_state \notin {"HEADER", "NODES"} => AllNodesSaved
          /\ enc_iters.created - enc_iters.freed = (IF enc_dbiter.created THEN 1 ELSE 0)
          /\ enc_dbiter.created => ~AllNodesSaved)
    /\ [][NodesWritten =>
            /\ enc_iters'.created = enc_iters.created + (IF enc_dbiter.created THEN 0 ELSE 1)
            /\ enc_iters'.freed = enc_iters.freed + (IF AllNodesSaved' THEN 1 ELSE 0)
            /\ AllNodesSaved' <=> enc_dbiter' = NoDataBlockIterator]_vars

\* two live nodes written by two calls of budget 1: one iterator, created
\* by the first call and freed by the second
C36_Witness ==
    /\ Len(enc_nodes) = 2
    /\ Len(SelectSeq(enc_budgets, LAMBDA b : b = <<"NODES", 1>>)) = 2
    /\ enc_iters = [created |-> 1, freed |-> 1]
    /\ enc_dbiter = NoDataBlockIterator

\* a step of _DecodeHeader: one more virtual key has arrived
HeaderDecoded == Len(gd_order') = Len(gd_order) + 1

\* C37: the one-time initialization of the graph (allocation of the node
\* and edge stores, creation of the matrices, recording of the multi-edge
\* flags and of the key count) runs exactly once per graph decode, in the
\* header of the virtual key that arrives first, which is the one that finds
\* the processed key count at 0.
C37_InitOnceOnFirstKey ==
    /\ [](gd_allocated = (IF gd_order = <<>> THEN 0 ELSE 1))
    /\ [][HeaderDecoded =>
            /\ gd_allocated' = gd_allocated + 1 <=> gd_order = <<>>
            /\ gd_allocated' # gd_allocated => gd_processed = 0
            /\ gd_order # <<>> => UNCHANGED <<gd_allocated, gd_key_count>>
            /\ gd_key_count' = Len(gd_keys)]_vars
    /\ [][~HeaderDecoded => UNCHANGED gd_allocated]_vars

\* the key that arrived first is not the key numbered first, and a later
\* key has been fully decoded after it
C37_Witness ==
    /\ Len(gd_order) >= 2
    /\ gd_order[1] # 1
    /\ gd_processed = 2
    /\ gd_allocated = 1

\* the place of a call in the log of the finalization (0: not made)
CallAt(op) ==
    IF \E i \in 1 .. Len(gd_final_log) : gd_final_log[i].op = op
    THEN CHOOSE i \in 1 .. Len(gd_final_log) : gd_final_log[i].op = op
    ELSE 0

FinalizationCalls ==
    {"Serializer_Graph_SetNodeLabels", "Graph_ApplyAllPending", "Graph_SetMatrixPolicy",
     "Index_Enable", "Graph_Pending", "GraphDecodeContext_Reset"}

\* C38: in the finalization of a decode the node-label matrix is set before
\* the matrices are flushed, the flush precedes the return to the policy
\* FLUSH-RESIZE, the pending indices are enabled only after the flush, the
\* graph has no pending changes where Graph_Pending is asserted and when the
\* decoding context is reset, and the reset of the context is the last step.
C38_FinalizationOrder ==
    /\ gd_finalized = 0 => gd_final_log = <<>>
    /\ gd_finalized = 1 =>
          /\ \A op \in FinalizationCalls :
                Cardinality({i \in 1 .. Len(gd_final_log) : gd_final_log[i].op = op}) = 1
          /\ CallAt("Serializer_Graph_SetNodeLabels") < CallAt("Graph_ApplyAllPending")
          /\ gd_final_log[CallAt("Graph_ApplyAllPending")].node_labels
          /\ CallAt("Graph_ApplyAllPending") < CallAt("Graph_SetMatrixPolicy")
          /\ ~gd_final_log[CallAt("Graph_SetMatrixPolicy")].pending
          /\ \A i \in 1 .. CallAt("Graph_ApplyAllPending") :
                \A s \in DecodeSchemas : gd_final_log[i].index[s] # "active"
          /\ CallAt("Graph_ApplyAllPending") < CallAt("Index_Enable")
          /\ ~gd_final_log[CallAt("Index_Enable")].pending
          /\ ~gd_final_log[CallAt("Graph_Pending")].pending
          /\ CallAt("GraphDecodeContext_Reset") = Len(gd_final_log)
          /\ ~gd_final_log[CallAt("GraphDecodeContext_Reset")].pending
          /\ \A i \in 1 .. Len(gd_final_log) : gd_final_log[i].processed = Len(gd_keys)
          /\ gd_processed = 0
          /\ gd_node_labels
          /\ ~gd_pending
          /\ gd_policy = "SYNC_POLICY_FLUSH_RESIZE"

\* the decode of a graph of several keys with nodes or edges and an index
\* was finalized: the matrices had pending changes when it began
C38_Witness ==
    /\ gd_finalized = 1
    /\ Len(gd_keys) >= 2
    /\ gd_entities
    /\ gd_indexed # {}
    /\ gd_final_log[1].pending
    /\ gd_final_log[1].policy = "SYNC_POLICY_NOP"

====
